---- MODULE Spec2Model ----
(***************************************************************************)
(* Transcription job orchestration of the meeting backend:                 *)
(*   controllers/transcriptionController.js  (startTranscription,          *)
(*       processTranscriptionJob, sendTranscriptionCompleteNotification,   *)
(*       deleteTranscript, getTranscription, getTranscriptStats,           *)
(*       getJobStatus)                                                     *)
(*   controllers/meetingController.js        (initiateTranscription)       *)
(*   config/ai-services.js                   (getServiceConfig,            *)
(*       updateUsageStats, retry configuration)                            *)
(*   config/redis.js                         (set / lpush rethrow,         *)
(*       acquireLock)                                                      *)
(* and the library functions the pipeline is built from:                   *)
(*   config/ai-services.js                   (getBestSTTService)           *)
(*   services/audioProcessingService.js      (validateAudioFile,           *)
(*       convertAudio, extractAudioFromVideo, splitAudio)                  *)
(*   services/speechToTextService.js         (batchTranscribe,             *)
(*       mergeShortSegments, addParagraphBreaks, postProcessTranscription, *)
(*       the response parsers)                                             *)
(*   models/Transcript.js                    (updateSpeakerStatistics)     *)
(*                                                                         *)
(* Every handler is an async function; one action of the model is the code *)
(* that runs between two awaits that touch a store (MongoDB, Redis, the    *)
(* provider, the mailer).  A call to a store may throw; the number of such *)
(* infrastructure faults in one behaviour is capped by MaxFaults.          *)
(***************************************************************************)
EXTENDS Integers, Sequences, FiniteSets, TLC

\* ------------------------------------------------------------------ bounds
MaxJobs        == 2     \* requests and queue deliveries in one behaviour
MaxFaults      == 1     \* store calls that throw in one behaviour

\* ------------------------------------------------------- program constants
maxAttempts == 3

Meetings == {1}
\* Every Transcript _id is allocated by one startTranscription request.
MaxTranscripts == MaxJobs
TIds     == 1..MaxTranscripts
JobIds   == 1..MaxJobs
Undef    == 0            \* JavaScript undefined / null for an id

\* Owner of a meeting (Meeting.userId); requests of other users get 404.
Owner(m) == IF m % 2 = 1 THEN "u1" ELSE "u2"

\* Sizes of the segment list of a provider result: empty and non-empty.
SegmentCounts == {0, 1}

\* The services of sttServices, and one the registry does not hold.
sttServices == {"fpt", "whisper", "google", "azure"}
Services    == {"whisper", "aws"}

\* Error classes of the specification (section 7) among the messages the
\* code records.  The code itself draws no distinction between them; the
\* other messages are "StorageUnavailable" (a store call threw) and
\* "TranscriptNotFound".
Transient == {"ProviderTimeout"}
Permanent == {"UnsupportedService", "CorruptFile", "ProviderQuotaExceeded"}

VARIABLES
  transcripts,   \* Transcript collection: _id -> document
  meetings,      \* Meeting collection: _id -> [status, transcript]
  jobStatus,     \* Redis transcription-job:<id> -> entry
  cache,         \* Redis transcript:<id> -> cached status
  queue,         \* Redis list transcription-queue (head = last lpush)
  jobs,          \* requests and processTranscriptionJob invocations, by slot
  nextTid,       \* next Transcript _id
  usage,         \* aiServiceManager.usageStats requests, per service
  billed,        \* history: updateUsageStats calls made for a transcript id
  attempts,      \* history: provider calls made for a transcript id
  saves,         \* history: result saves made for a transcript id
  notified,      \* history: notification e-mails sent for a transcript id
  faults,        \* store calls that have thrown so far
  statsCache,    \* Redis transcript-stats:<id> -> cached or not
  answered,      \* history: the last answer of a read handler with data
  lock,          \* Redis lock:<key>, and the callers of acquireLock
  selection,     \* a call of getBestSTTService: registry, arguments, result
  validation,    \* a call of validateAudioFile: the file and the result
  conversion,    \* a conversion of AudioProcessingService and its files
  batch,         \* a call of batchTranscribe: paths, promises, results
  post           \* a call of a post-processing function: input and output

\* The state of the controllers and the state of the library calls.
viewVars == <<statsCache, answered>>
jobVars == <<transcripts, meetings, jobStatus, cache, queue, jobs, nextTid,
             usage, billed, attempts, saves, notified, faults, viewVars,
             lock>>
libVars == <<selection, validation, conversion, batch, post>>

vars == <<jobVars, libVars>>

\* No call of a library function is under way.
NoCall == [pc |-> "off"]

NoTranscript == [status |-> "absent", meetingId |-> Undef, userId |-> "none",
                 service |-> "none", segments |-> 0, error |-> "none"]
NoEntry      == [status |-> "absent", error |-> "none", result |-> FALSE]
\* The callers of acquireLock('k') and the lock values they may draw.
MaxAcquires == 3
LockCallers == {"c1", "c2", "c3"}

\* No key lock:k, no caller in acquireLock.  value is the lockValue of a
\* caller (0: none yet), result what its last release() returned (-1: it
\* has not released), spared the value that release() found in the key and
\* left there (history), next the next lockValue: Date.now() and
\* Math.random() make every lockValue a new one.
NoLock == [key |-> 0,
           pc |-> [c \in LockCallers |-> "idle"],
           value |-> [c \in LockCallers |-> 0],
           result |-> [c \in LockCallers |-> -1],
           spared |-> [c \in LockCallers |-> 0],
           next |-> 1]

NoAnswer     == [handler |-> "none", user |-> "none", tid |-> Undef]
NoJob        == [pc |-> "idle", tid |-> Undef, mid |-> Undef,
                 service |-> "none", err |-> "none", res |-> 0,
                 note |-> "none"]

JobInit ==
  /\ transcripts = [t \in TIds |-> NoTranscript]
  /\ meetings    = [m \in Meetings |-> [status |-> "uploaded", transcript |-> Undef]]
  /\ jobStatus   = [t \in TIds \cup {Undef} |-> NoEntry]
  /\ cache       = [t \in TIds |-> "absent"]
  /\ queue       = <<>>
  /\ jobs        = [j \in JobIds |-> NoJob]
  /\ nextTid     = 1
  /\ usage       = [s \in Services |-> 0]
  /\ billed      = [t \in TIds |-> 0]
  /\ attempts    = [t \in TIds |-> 0]
  /\ saves       = [t \in TIds |-> 0]
  /\ notified    = [t \in TIds |-> 0]
  /\ faults      = 0
  /\ statsCache  = [t \in TIds |-> FALSE]
  /\ answered    = NoAnswer
  /\ lock        = NoLock

Init ==
  /\ JobInit
  /\ selection = NoCall
  /\ validation = NoCall
  /\ conversion = NoCall
  /\ batch = NoCall
  /\ post = NoCall

\* ----------------------------------------------------------------- helpers
\* Transcript.findOne({ meetingId }) : the _id found, or Undef.
findByMeeting(m) ==
  IF \E t \in TIds : transcripts[t].status # "absent" /\ transcripts[t].meetingId = m
  THEN CHOOSE t \in TIds : transcripts[t].status # "absent" /\ transcripts[t].meetingId = m
  ELSE Undef

\* Every request (start, delete, upload) and every delivery of the queue
\* takes the next free slot of jobs; slots are handed out in order.
FreeSlot(j) == jobs[j].pc = "idle" /\ \A k \in JobIds : k < j => jobs[k].pc # "idle"

CanFault == faults < MaxFaults

Users == {"u1", "u2"}

\* The jobData object built at transcriptionController.js 131-141.
JobData(t, m, svc) == [tid |-> t, mid |-> m, service |-> svc]

\* throw inside the try block of processTranscriptionJob: control goes to
\* the catch block with error.message = msg.
\* A finished invocation keeps its transcript id and how it ended: note is
\* the outcome of its notification ("sent", "skipped", "failed"), "caught"
\* (the catch block ran to its end), "rejected" (the catch block threw),
\* "500" (startTranscription answered 500), "deleted" or "uploaded" (the
\* request was a delete or an upload).  Its other locals are dead.
Finished(j, n) == [jobs EXCEPT ![j] = [NoJob EXCEPT !.pc = "done",
                      !.tid = jobs[j].tid, !.note = n]]

Raise(j, msg) == [jobs EXCEPT ![j].pc = "catchTranscript", ![j].err = msg]

\* --------------------------------------------------- startTranscription
\* Lines 29-97: validation, ownership, the existing-transcript check and the
\* choice of the service.  Early returns (400, 404, 409) leave the state
\* alone and are the guard.  user.subscription.limits.transcriptionsPerMonth
\* is not a field of the User schema (User.js 226-241), so the comparison
\* at line 83 is against undefined and never rejects.
startTranscription_check(j, u, m, svc) ==
  /\ FreeSlot(j)
  /\ Owner(m) = u
  /\ LET ex == findByMeeting(m) IN
       /\ ~(ex # Undef /\ transcripts[ex].status # "failed")
       /\ jobs' = [jobs EXCEPT ![j] = [NoJob EXCEPT !.pc = "startSave",
                      !.tid = ex, !.mid = m, !.service = svc]]
  /\ UNCHANGED <<libVars, viewVars, lock>>
  /\ UNCHANGED <<transcripts, meetings, jobStatus, cache, queue, nextTid,
                 usage, billed, attempts, saves, notified, faults>>

\* Lines 99-122: the record is written with status 'processing' at once.
\* An existing (failed) document is reused; a new document needs a free
\* meetingId (unique index, Transcript.js meetingId.unique).  save() of a
\* document deleted in the meantime, a duplicate key, or a store fault
\* throws: the handler answers 500 and nothing is written.
CanSaveTranscript(j) ==
  IF jobs[j].tid # Undef
  THEN transcripts[jobs[j].tid].status # "absent"
  ELSE findByMeeting(jobs[j].mid) = Undef

SavedId(j) == IF jobs[j].tid # Undef THEN jobs[j].tid ELSE nextTid

SaveTranscript(j) ==
  LET t == SavedId(j) IN
  IF jobs[j].tid # Undef
  THEN [transcripts EXCEPT ![t].status = "processing",
                           ![t].service = jobs[j].service]
  ELSE [transcripts EXCEPT ![t] = [NoTranscript EXCEPT
                           !.status = "processing", !.meetingId = jobs[j].mid,
                           !.userId = Owner(jobs[j].mid),
                           !.service = jobs[j].service]]

startTranscription_reject(j) ==
  /\ jobs[j].pc = "startSave"
  /\ \/ ~CanSaveTranscript(j) /\ faults' = faults
     \/ CanFault /\ faults' = faults + 1
  /\ jobs' = Finished(j, "500")
  /\ UNCHANGED <<libVars, viewVars, lock>>
  /\ UNCHANGED <<transcripts, meetings, jobStatus, cache, queue, nextTid,
                 usage, billed, attempts, saves, notified>>

\* Lines 122-163 without a fault: transcript.save(), meeting.save(), lpush
\* on 'transcription-queue', cache set, the response, and the direct,
\* un-awaited call of processTranscriptionJob(jobData).
startTranscription_save(j) ==
  /\ jobs[j].pc = "startSave"
  /\ CanSaveTranscript(j)
  /\ LET t == SavedId(j)
         m == jobs[j].mid IN
       /\ transcripts' = SaveTranscript(j)
       /\ nextTid' = IF jobs[j].tid = Undef THEN nextTid + 1 ELSE nextTid
       /\ meetings' = [meetings EXCEPT ![m] =
                          [status |-> "transcribing", transcript |-> t]]
       /\ queue' = <<JobData(t, m, jobs[j].service)>> \o queue
       /\ cache' = [cache EXCEPT ![t] = "processing"]
       /\ jobs' = [jobs EXCEPT ![j].pc = "setJob", ![j].tid = t]
  /\ UNCHANGED <<libVars, viewVars, lock>>
  /\ UNCHANGED <<jobStatus, usage, billed, attempts, saves, notified, faults>>

\* Lines 122-146 with a store fault after the transcript was saved:
\* at = "meeting" (meeting.save throws), "lpush", or "cache".  The handler
\* answers 500 and processTranscriptionJob is never called.
startTranscription_fault(j, at) ==
  /\ jobs[j].pc = "startSave"
  /\ CanSaveTranscript(j)
  /\ CanFault
  /\ faults' = faults + 1
  /\ LET t == SavedId(j)
         m == jobs[j].mid IN
       /\ transcripts' = SaveTranscript(j)
       /\ nextTid' = IF jobs[j].tid = Undef THEN nextTid + 1 ELSE nextTid
       /\ meetings' = IF at = "meeting" THEN meetings
                      ELSE [meetings EXCEPT ![m] =
                              [status |-> "transcribing", transcript |-> t]]
       /\ queue' = IF at = "cache"
                   THEN <<JobData(t, m, jobs[j].service)>> \o queue
                   ELSE queue
       /\ jobs' = [jobs EXCEPT ![j] = [NoJob EXCEPT !.pc = "done",
                      !.tid = t, !.note = "500"]]
  /\ UNCHANGED <<libVars, viewVars, lock>>
  /\ UNCHANGED <<jobStatus, cache, usage, billed, attempts, saves, notified>>


\* ------------------------------------------------ processTranscriptionJob
\* Line 765: the job-status entry is written with status 'processing',
\* whatever it held before.  redisConfig.set rethrows (redis.js 291-304).
processTranscriptionJob_setJob(j) ==
  /\ jobs[j].pc = "setJob"
  /\ jobStatus' = [jobStatus EXCEPT ![jobs[j].tid] =
                      [status |-> "processing", error |-> "none", result |-> FALSE]]
  /\ jobs' = [jobs EXCEPT ![j].pc = "find"]
  /\ UNCHANGED <<libVars, viewVars, lock>>
  /\ UNCHANGED <<transcripts, meetings, cache, queue, nextTid, usage, billed,
                 attempts, saves, notified, faults>>

\* A store call inside the try block throws (Redis set, Mongo find, save or
\* findByIdAndUpdate): the write is not made and control goes to catch.
processTranscriptionJob_storeFault(j) ==
  /\ jobs[j].pc \in {"setJob", "find", "save", "meeting", "cache", "jobDone"}
  /\ CanFault
  /\ faults' = faults + 1
  /\ jobs' = Raise(j, "StorageUnavailable")
  /\ UNCHANGED <<libVars, viewVars, lock>>
  /\ UNCHANGED <<transcripts, meetings, jobStatus, cache, queue, nextTid,
                 usage, billed, attempts, saves, notified>>

\* Lines 772-804: Transcript.findById (null -> throw), processAudioFile
\* (audio is its outcome: "ok" or the error it throws), getServiceConfig
\* (throws for a service sttServices does not hold, ai-services.js 489-493)
\* and the switch on the service (default -> throw).
processTranscriptionJob_prepare(j, audio) ==
  /\ jobs[j].pc = "find"
  /\ jobs' =
       IF jobs[j].tid = Undef \/ transcripts[jobs[j].tid].status = "absent"
         THEN Raise(j, "TranscriptNotFound")
       ELSE IF audio # "ok" THEN Raise(j, audio)
       ELSE IF jobs[j].service \notin sttServices THEN Raise(j, "UnsupportedService")
       ELSE [jobs EXCEPT ![j].pc = "provider"]
  /\ UNCHANGED <<libVars, viewVars, lock>>
  /\ UNCHANGED <<transcripts, meetings, jobStatus, cache, queue, nextTid,
                 usage, billed, attempts, saves, notified, faults>>

\* Lines 789-801: the provider call, transcribeWith<Service>.  The provider
\* is an external collaborator: out is "ok" with a result of n segments, or
\* the error it throws (the adapters of lines 1096-1114 are placeholders
\* that throw on every call; ProviderOutcomes adds what an adapter that
\* calls the provider returns).  There is one call per invocation and no
\* loop around it: sttServices.<name>.config.retry is never read.
processTranscriptionJob_transcribe(j, out, n) ==
  /\ jobs[j].pc = "provider"
  /\ attempts' = [attempts EXCEPT ![jobs[j].tid] = @ + 1]
  /\ jobs' = IF out = "ok" THEN [jobs EXCEPT ![j].pc = "save", ![j].res = n]
             ELSE Raise(j, out)
  /\ UNCHANGED <<libVars, viewVars, lock>>
  /\ UNCHANGED <<transcripts, meetings, jobStatus, cache, queue, nextTid,
                 usage, billed, saves, notified, faults>>

\* Lines 806-828: the result and status 'completed' are written by one
\* transcript.save().  save() of a document deleted since findById throws
\* DocumentNotFoundError.
processTranscriptionJob_save(j) ==
  /\ jobs[j].pc = "save"
  /\ LET t == jobs[j].tid IN
       IF transcripts[t].status = "absent"
       THEN /\ jobs' = Raise(j, "TranscriptNotFound")
            /\ UNCHANGED <<transcripts, saves>>
       ELSE /\ transcripts' = [transcripts EXCEPT ![t].status = "completed",
                                  ![t].segments = jobs[j].res]
            /\ saves' = [saves EXCEPT ![t] = @ + 1]
            /\ jobs' = [jobs EXCEPT ![j].pc = "meeting"]
  /\ UNCHANGED <<libVars, viewVars, lock>>
  /\ UNCHANGED <<meetings, jobStatus, cache, queue, nextTid, usage, billed,
                 attempts, notified, faults>>

\* Lines 831-834: Meeting.findByIdAndUpdate(status 'transcribed').
processTranscriptionJob_meeting(j) ==
  /\ jobs[j].pc = "meeting"
  /\ meetings' = [meetings EXCEPT ![jobs[j].mid].status = "transcribed"]
  /\ jobs' = [jobs EXCEPT ![j].pc = "cache"]
  /\ UNCHANGED <<libVars, viewVars, lock>>
  /\ UNCHANGED <<transcripts, jobStatus, cache, queue, nextTid, usage, billed,
                 attempts, saves, notified, faults>>

\* Line 837: the in-memory document (status 'completed') is cached.
processTranscriptionJob_cache(j) ==
  /\ jobs[j].pc = "cache"
  /\ cache' = [cache EXCEPT ![jobs[j].tid] = "completed"]
  /\ jobs' = [jobs EXCEPT ![j].pc = "jobDone"]
  /\ UNCHANGED <<libVars, viewVars, lock>>
  /\ UNCHANGED <<transcripts, meetings, jobStatus, queue, nextTid, usage, billed,
                 attempts, saves, notified, faults>>

\* Lines 840-864: job-status entry 'completed' with the result summary, then
\* (synchronously) aiServiceManager.updateUsageStats, requests + 1.
processTranscriptionJob_jobDone(j) ==
  /\ jobs[j].pc = "jobDone"
  /\ jobStatus' = [jobStatus EXCEPT ![jobs[j].tid] =
                      [status |-> "completed", error |-> "none", result |-> TRUE]]
  /\ usage' = [usage EXCEPT ![jobs[j].service] = @ + 1]
  /\ billed' = [billed EXCEPT ![jobs[j].tid] = @ + 1]
  /\ jobs' = [jobs EXCEPT ![j].pc = "notify"]
  /\ UNCHANGED <<libVars, viewVars, lock>>
  /\ UNCHANGED <<transcripts, meetings, cache, queue, nextTid,
                 attempts, saves, notified, faults>>

\* sendTranscriptionCompleteNotification without the try/catch of lines
\* 1053-1072: the error of a failed lookup or sendEmail reaches the catch
\* block of processTranscriptionJob.
sendNotification_uncaught(j, mail) ==
  /\ jobs[j].pc = "notify"
  /\ notified' = IF mail = "sent"
                 THEN [notified EXCEPT ![jobs[j].tid] = @ + 1] ELSE notified
  /\ jobs' = IF mail = "failed" THEN Raise(j, "NotificationFailed")
             ELSE Finished(j, mail)
  /\ UNCHANGED <<libVars, viewVars, lock>>
  /\ UNCHANGED <<transcripts, meetings, jobStatus, cache, queue, nextTid,
                 usage, billed, attempts, saves, faults>>

\* Lines 867 and 1052-1073: sendTranscriptionCompleteNotification.  mail is
\* "sent", "skipped" (user or meeting not found) or "failed" (a lookup or
\* sendEmail throws); the try/catch of lines 1053-1072 swallows the error.
\* The e-mail carries userName, meetingTitle, wordCount, duration and
\* transcriptUrl (lines 1058-1068); it is sent on success only.
sendTranscriptionCompleteNotification(j, mail) ==
  /\ jobs[j].pc = "notify"
  /\ notified' = IF mail = "sent"
                 THEN [notified EXCEPT ![jobs[j].tid] = @ + 1] ELSE notified
  /\ jobs' = Finished(j, mail)
  /\ UNCHANGED <<libVars, viewVars, lock>>
  /\ UNCHANGED <<transcripts, meetings, jobStatus, cache, queue, nextTid,
                 usage, billed, attempts, saves, faults>>

\* Lines 869-877: catch, first await.  Transcript.findByIdAndUpdate sets
\* status 'failed' and the message on whatever the document holds now (its
\* segments are left alone); a missing document is no error.
processTranscriptionJob_catchTranscript(j) ==
  /\ jobs[j].pc = "catchTranscript"
  /\ LET t == jobs[j].tid IN
       transcripts' =
         IF t # Undef /\ transcripts[t].status # "absent"
         THEN [transcripts EXCEPT ![t].status = "failed", ![t].error = jobs[j].err]
         ELSE transcripts
  /\ jobs' = [jobs EXCEPT ![j].pc = "catchJob"]
  /\ UNCHANGED <<libVars, viewVars, lock>>
  /\ UNCHANGED <<meetings, jobStatus, cache, queue, nextTid, usage, billed,
                 attempts, saves, notified, faults>>

\* Lines 880-885: job-status entry 'failed' with the message.
processTranscriptionJob_catchJob(j) ==
  /\ jobs[j].pc = "catchJob"
  /\ jobStatus' = [jobStatus EXCEPT ![jobs[j].tid] =
                      [status |-> "failed", error |-> jobs[j].err, result |-> FALSE]]
  /\ jobs' = [jobs EXCEPT ![j].pc = "catchMeeting"]
  /\ UNCHANGED <<libVars, viewVars, lock>>
  /\ UNCHANGED <<transcripts, meetings, cache, queue, nextTid, usage, billed,
                 attempts, saves, notified, faults>>

\* Lines 888-891: Meeting.findByIdAndUpdate(status 'failed').
processTranscriptionJob_catchMeeting(j) ==
  /\ jobs[j].pc = "catchMeeting"
  /\ meetings' = [meetings EXCEPT ![jobs[j].mid].status = "failed"]
  /\ jobs' = Finished(j, "caught")
  /\ UNCHANGED <<libVars, viewVars, lock>>
  /\ UNCHANGED <<transcripts, jobStatus, cache, queue, nextTid, usage, billed,
                 attempts, saves, notified, faults>>

\* A store call inside the catch block throws: nothing handles it, the
\* promise of processTranscriptionJob rejects and the rest is not run.
processTranscriptionJob_catchFault(j) ==
  /\ jobs[j].pc \in {"catchTranscript", "catchJob", "catchMeeting"}
  /\ CanFault
  /\ faults' = faults + 1
  /\ jobs' = Finished(j, "rejected")
  /\ UNCHANGED <<libVars, viewVars, lock>>
  /\ UNCHANGED <<transcripts, meetings, jobStatus, cache, queue, nextTid,
                 usage, billed, attempts, saves, notified>>


\* ------------------------------------------------------- deleteTranscript
\* Lines 369-414: the owner's transcript is deleted, the meeting loses its
\* reference and goes back to 'uploaded', the cache entry is removed.  The
\* job-status entry and running jobs are left alone.
deleteTranscript(j, u, t) ==
  /\ FreeSlot(j)
  /\ transcripts[t].status # "absent"
  /\ transcripts[t].userId = u
  /\ meetings' = [meetings EXCEPT ![transcripts[t].meetingId] =
                     [status |-> "uploaded", transcript |-> Undef]]
  /\ transcripts' = [transcripts EXCEPT ![t] = NoTranscript]
  /\ cache' = [cache EXCEPT ![t] = "absent"]
  /\ jobs' = [jobs EXCEPT ![j] = [NoJob EXCEPT !.pc = "done", !.tid = t,
                                  !.note = "deleted"]]
  /\ UNCHANGED <<libVars, viewVars, lock>>
  /\ UNCHANGED <<jobStatus, queue, nextTid, usage, billed, attempts, saves,
                 notified, faults>>

\* -------------------------------------------------- initiateTranscription
\* meetingController.js 1578-1609, called after every file upload (1211):
\* a unit of work without a transcriptId is pushed on the same queue and
\* the meeting is marked 'processing'.  No Transcript is created.
initiateTranscription(j, m, svc) ==
  /\ FreeSlot(j)
  /\ svc \in sttServices
  /\ queue' = <<JobData(Undef, m, svc)>> \o queue
  /\ meetings' = [meetings EXCEPT ![m].status = "processing"]
  /\ jobs' = [jobs EXCEPT ![j] = [NoJob EXCEPT !.pc = "done",
                                  !.note = "uploaded"]]
  /\ UNCHANGED <<libVars, viewVars, lock>>
  /\ UNCHANGED <<transcripts, jobStatus, cache, nextTid, usage, billed,
                 attempts, saves, notified, faults>>

\* ------------------------------------------------------------ queue worker
\* The consumer of 'transcription-queue' (specification, sections 2, 4.5
\* and 6: a worker pulls a unit of work from the at-least-once queue and
\* processes it).  rpop takes the oldest entry; the worker hands it to
\* processTranscriptionJob.
workerClaim(j) ==
  /\ FreeSlot(j)
  /\ queue # <<>>
  /\ LET jd == queue[Len(queue)] IN
       jobs' = [jobs EXCEPT ![j] = [NoJob EXCEPT !.pc = "setJob",
                   !.tid = jd.tid, !.mid = jd.mid, !.service = jd.service]]
  /\ queue' = SubSeq(queue, 1, Len(queue) - 1)
  /\ UNCHANGED <<libVars, viewVars, lock>>
  /\ UNCHANGED <<transcripts, meetings, jobStatus, cache, nextTid, usage, billed,
                 attempts, saves, notified, faults>>

\* ------------------------------------------------------------------- Next
AudioOutcomes    == {"ok", "CorruptFile"}
ProviderOutcomes == {"ok", "ProviderTimeout", "ProviderQuotaExceeded"}
MailOutcomes     == {"sent", "skipped", "failed"}

\* The steps of the handlers of the controllers.
CodeNext ==
  \/ \E j \in JobIds, u \in Users, m \in Meetings, svc \in Services :
        startTranscription_check(j, u, m, svc)
  \/ \E j \in JobIds : startTranscription_reject(j)
  \/ \E j \in JobIds : startTranscription_save(j)
  \/ \E j \in JobIds, at \in {"meeting", "lpush", "cache"} :
        startTranscription_fault(j, at)
  \/ \E j \in JobIds : processTranscriptionJob_setJob(j)
  \/ \E j \in JobIds : processTranscriptionJob_storeFault(j)
  \/ \E j \in JobIds, audio \in AudioOutcomes :
        processTranscriptionJob_prepare(j, audio)
  \/ \E j \in JobIds, out \in ProviderOutcomes, n \in SegmentCounts :
        processTranscriptionJob_transcribe(j, out, n)
  \/ \E j \in JobIds : processTranscriptionJob_save(j)
  \/ \E j \in JobIds : processTranscriptionJob_meeting(j)
  \/ \E j \in JobIds : processTranscriptionJob_cache(j)
  \/ \E j \in JobIds : processTranscriptionJob_jobDone(j)
  \/ \E j \in JobIds, mail \in MailOutcomes :
        sendTranscriptionCompleteNotification(j, mail)
  \/ \E j \in JobIds : processTranscriptionJob_catchTranscript(j)
  \/ \E j \in JobIds : processTranscriptionJob_catchJob(j)
  \/ \E j \in JobIds : processTranscriptionJob_catchMeeting(j)
  \/ \E j \in JobIds : processTranscriptionJob_catchFault(j)
  \/ \E j \in JobIds, u \in Users, t \in TIds : deleteTranscript(j, u, t)
  \/ \E j \in JobIds, m \in Meetings, svc \in Services :
        initiateTranscription(j, m, svc)

Next ==
  \/ CodeNext
  \/ \E j \in JobIds : workerClaim(j)

\* The controllers together with a consumer of the queue.
Spec == Init /\ [][Next]_vars

\* The controllers alone: nothing consumes 'transcription-queue'.
SpecDirect == Init /\ [][CodeNext]_vars

\* The state a failed run leaves behind (lines 866-892) once its handlers
\* have returned: transcript 1 of meeting 1 is 'failed', as are its
\* job-status entry and the meeting; the cache entry written at line 146
\* and the jobData pushed at line 143 are still there.
InitRetry ==
  /\ \E svc \in Services, err \in {"CorruptFile", "ProviderTimeout"} :
        /\ transcripts = [t \in TIds |->
              IF t = 1
              THEN [NoTranscript EXCEPT !.status = "failed", !.meetingId = 1,
                       !.userId = Owner(1), !.service = svc, !.error = err]
              ELSE NoTranscript]
        /\ jobStatus = [t \in TIds \cup {Undef} |->
              IF t = 1
              THEN [status |-> "failed", error |-> err, result |-> FALSE]
              ELSE NoEntry]
        /\ queue = <<JobData(1, 1, svc)>>
        /\ attempts = [t \in TIds |->
              IF t = 1 /\ err = "ProviderTimeout" THEN 1 ELSE 0]
  /\ meetings = [m \in Meetings |-> [status |-> "failed", transcript |-> 1]]
  /\ cache = [t \in TIds |-> IF t = 1 THEN "processing" ELSE "absent"]
  /\ jobs = [j \in JobIds |-> NoJob]
  /\ nextTid = 2
  /\ usage = [s \in Services |-> 0]
  /\ billed = [t \in TIds |-> 0]
  /\ saves = [t \in TIds |-> 0]
  /\ notified = [t \in TIds |-> 0]
  /\ faults = 0
  /\ statsCache = [t \in TIds |-> FALSE]
  /\ answered = NoAnswer
  /\ lock = NoLock
  /\ selection = NoCall
  /\ validation = NoCall
  /\ conversion = NoCall
  /\ batch = NoCall
  /\ post = NoCall

\* ---------------------------------------------------------- read handlers
\* The userId of the document stored or cached under t, and of the jobData
\* of its job-status entry: every transcript is created for a meeting by
\* the owner of the meeting (lines 44, 109-111, 139), and ids are not
\* reused.
docOwner(t) ==
  IF transcripts[t].status # "absent" THEN transcripts[t].userId
  ELSE Owner(CHOOSE m \in Meetings : TRUE)

Answer(handler, u, t) == [handler |-> handler, user |-> u, tid |-> t]

\* Lines 179-222: the cached document is returned when its userId is the
\* caller's (185-192); otherwise Transcript.findOne({ _id, userId }), 404
\* for none, and the document found is cached and returned.
getTranscription(u, t) ==
  /\ \/ /\ cache[t] # "absent"
        /\ docOwner(t) = u
        /\ UNCHANGED cache
     \/ /\ ~(cache[t] # "absent" /\ docOwner(t) = u)
        /\ transcripts[t].status # "absent"
        /\ transcripts[t].userId = u
        /\ cache' = [cache EXCEPT ![t] = transcripts[t].status]
  /\ answered' = Answer("getTranscription", u, t)
  /\ UNCHANGED <<libVars, statsCache, lock>>
  /\ UNCHANGED <<transcripts, meetings, jobStatus, queue, jobs, nextTid,
                 usage, billed, attempts, saves, notified, faults>>

\* Lines 523-625: a cached transcript-stats:<id> entry is returned as it is
\* (527-535); otherwise Transcript.findOne({ _id, userId }), 404 for none,
\* the empty statistics for a transcript without segments (not cached),
\* and else the statistics are computed, cached (line 611) and returned.
getTranscriptStats(u, t) ==
  /\ \/ /\ statsCache[t]
        /\ UNCHANGED statsCache
     \/ /\ ~statsCache[t]
        /\ transcripts[t].status # "absent"
        /\ transcripts[t].userId = u
        /\ statsCache' = [statsCache EXCEPT ![t] = transcripts[t].segments > 0]
  /\ answered' = Answer("getTranscriptStats", u, t)
  /\ UNCHANGED <<libVars, lock>>
  /\ UNCHANGED <<transcripts, meetings, jobStatus, cache, queue, jobs, nextTid,
                 usage, billed, attempts, saves, notified, faults>>

\* Lines 717-753: 404 without a transcription-job:<id> entry, 403 when the
\* entry's userId is not the caller's, and else the entry is returned.
getJobStatus(u, t) ==
  /\ jobStatus[t].status # "absent"
  /\ docOwner(t) = u
  /\ answered' = Answer("getJobStatus", u, t)
  /\ UNCHANGED <<libVars, statsCache, lock>>
  /\ UNCHANGED <<transcripts, meetings, jobStatus, cache, queue, jobs, nextTid,
                 usage, billed, attempts, saves, notified, faults>>

ViewNext ==
  \/ CodeNext
  \/ \E u \in Users, t \in TIds : getTranscription(u, t)
  \/ \E u \in Users, t \in TIds : getTranscriptStats(u, t)
  \/ \E u \in Users, t \in TIds : getJobStatus(u, t)

\* The controllers together with the read handlers.
SpecViews == Init /\ [][ViewNext]_vars

\* The controllers, from the state a failed transcription leaves behind.
SpecRetry == InitRetry /\ [][CodeNext]_vars


\* ======================================================= library functions
\* ------------------------------------------------------ getBestSTTService
\* ai-services.js 10-164: the registry.  Object.entries lists the services
\* in the order they are written.  whisper sets no limits.maxDuration.
registryOrder == <<"fpt", "whisper", "google", "azure">>

MB      == 1024 * 1024
NoLimit == 0            \* limits.maxDuration is undefined

sttConfig ==
  [fpt     |-> [languages |-> {"vi-VN", "en-US"},
                maxFileSize |-> 100 * MB, maxDuration |-> 3600],
   whisper |-> [languages |-> {"auto", "en", "vi", "zh", "ja", "ko", "fr",
                               "de", "es", "it", "pt", "ru"},
                maxFileSize |-> 25 * MB, maxDuration |-> NoLimit],
   google  |-> [languages |-> {"vi-VN", "en-US", "zh-CN", "ja-JP", "ko-KR"},
                maxFileSize |-> 1024 * MB, maxDuration |-> 480 * 60],
   azure   |-> [languages |-> {"vi-VN", "en-US", "zh-CN", "ja-JP", "ko-KR"},
                maxFileSize |-> 1024 * MB, maxDuration |-> 240 * 60]]

\* ai-services.js 408: the priority order of getBestSTTService.
priorityOrder == <<"fpt", "whisper", "google", "azure">>

\* The message of the Error thrown at ai-services.js 405.
NoSuitableMessage ==
  "No suitable STT service available for the given requirements"

\* Arguments of getBestSTTService: languages (the default 'auto', languages
\* of the registry, one no service lists), sizes in bytes and durations in
\* seconds at, below and above each limit of the registry.
Languages == {"auto", "vi-VN", "en", "ja-JP", "th-TH"}
FileSizes == {0, 25 * MB, 25 * MB + 1, 100 * MB, 100 * MB + 1,
              1024 * MB, 1024 * MB + 1}
Durations == {0, 3600, 3601, 14400, 14401, 28800, 28801}

\* ai-services.js 367-375: the enabled services, in registry order.
\* enabled is the set of services whose <NAME>_ENABLED variable is 'true'.
getAvailableSTTServices(enabled) ==
  SelectSeq(registryOrder, LAMBDA n : n \in enabled)

\* ai-services.js 392-395.
compatibleServices(enabled, language) ==
  SelectSeq(getAvailableSTTServices(enabled),
            LAMBDA n : \/ language \in sttConfig[n].languages
                       \/ "auto" \in sttConfig[n].languages)

\* suitableServices without the filter on size and duration.
suitableServices_noLimits(enabled, language, fileSize, duration) ==
  compatibleServices(enabled, language)

\* ai-services.js 397-402:
\*   fileSize <= maxFileSize && (duration <= maxDuration || !maxDuration)
suitableServices(enabled, language, fileSize, duration) ==
  SelectSeq(compatibleServices(enabled, language),
            LAMBDA n : /\ fileSize <= sttConfig[n].maxFileSize
                       /\ \/ /\ sttConfig[n].maxDuration # NoLimit
                             /\ duration <= sttConfig[n].maxDuration
                          \/ sttConfig[n].maxDuration = NoLimit)

Selected(n)  == [ok |-> TRUE, name |-> n, message |-> "none"]
Thrown(msg)  == [ok |-> FALSE, name |-> "none", message |-> msg]

\* getBestSTTService returning the last suitable service, whatever the
\* priority order says.
getBestSTTService_lastSuitable(enabled, language, fileSize, duration) ==
  LET suitable == suitableServices(enabled, language, fileSize, duration) IN
  IF Len(suitable) = 0 THEN Thrown(NoSuitableMessage)
  ELSE Selected(suitable[Len(suitable)])

\* ai-services.js 389-419.
getBestSTTService(enabled, language, fileSize, duration) ==
  LET suitable == suitableServices(enabled, language, fileSize, duration)
      found    == SelectSeq(priorityOrder,
                     LAMBDA n : \E i \in 1..Len(suitable) : suitable[i] = n)
  IN IF Len(suitable) = 0 THEN Thrown(NoSuitableMessage)
     ELSE IF Len(found) > 0 THEN Selected(Head(found))
     ELSE Selected(Head(suitable))

\* One call: the arguments are in selection, the result is stored there.
getBestSTTService_call ==
  /\ selection.pc = "called"
  /\ selection' = [selection EXCEPT !.pc = "returned",
                     !.result = getBestSTTService(selection.enabled,
                                   selection.language, selection.fileSize,
                                   selection.duration)]
  /\ UNCHANGED <<jobVars, validation, conversion, batch, post>>

InitSelector ==
  /\ JobInit
  /\ selection \in [pc : {"called"}, enabled : SUBSET sttServices,
                    language : Languages, fileSize : FileSizes,
                    duration : Durations, result : {Thrown("none")}]
  /\ validation = NoCall
  /\ conversion = NoCall
  /\ batch = NoCall
  /\ post = NoCall

NextSelector == getBestSTTService_call

\* Calls of getBestSTTService on every registry state and argument.
SpecSelector == InitSelector /\ [][NextSelector]_vars


\* ------------------------------------------------------ validateAudioFile
\* audioProcessingService.js, constructor: supportedFormats and settings.
supportedFormats == {"mp3", "wav", "flac", "aac", "m4a", "ogg", "wma",
                     "mp4", "avi", "mov", "mkv", "webm"}
maxDuration == 14400
maxFileSize == 500 * MB

\* Extensions of the files handed in, as written in the path, and
\* String.prototype.toLowerCase on them.
Extensions == {"mp3", "MP3", "wav", "Mkv", "txt", ""}
toLowerCase(e) == CASE e = "MP3" -> "mp3"
                    [] e = "Mkv" -> "mkv"
                    [] OTHER     -> e

\* What ffprobe reports for a file: metadata with an audio stream, metadata
\* without one (a video without sound), or an error (not a media file).
ProbeOutcomes == {"audio", "noAudio", "error"}

\* metadata.format.duration as ffprobe prints it: seconds, or "N/A", which
\* parseFloat turns into NaN.
NaN == -1
RawDurations == {NaN, 0, 14399, 14400, 14401}

\* The sizes fs.stat reports, in bytes.
StatSizes == {0, 500 * MB, 500 * MB + 1}

\* Line 1416: parseFloat(metadata.format.duration) || 0.
parsedDuration(raw) == IF raw = NaN THEN 0 ELSE raw

Valid       == [valid |-> TRUE, error |-> "none"]
Invalid(e)  == [valid |-> FALSE, error |-> e]

\* getAudioInfo (lines 1397-1432) on the file: the info, or the error.
getAudioInfo(f) ==
  IF f.probe = "error" THEN Invalid("Failed to get audio info")
  ELSE IF f.probe = "noAudio" THEN Invalid("No audio stream found in file")
  ELSE [valid |-> TRUE, error |-> "none",
        duration |-> parsedDuration(f.rawDuration)]

\* validateAudioFile rejecting a size or a duration at the ceiling.
validateAudioFile_ceilingRejected(f) ==
  IF ~f.exists THEN Invalid("ENOENT")
  ELSE IF f.size >= maxFileSize THEN Invalid("File size exceeds maximum")
  ELSE IF toLowerCase(f.ext) \notin supportedFormats
    THEN Invalid("Unsupported file format")
  ELSE IF ~getAudioInfo(f).valid THEN Invalid(getAudioInfo(f).error)
  ELSE IF getAudioInfo(f).duration >= maxDuration
    THEN Invalid("Audio duration exceeds maximum")
  ELSE Valid

\* validateAudioFile (lines 1437-1477): fs.access, fs.stat, the size check,
\* the extension check, getAudioInfo, the duration check, in this order.
validateAudioFile(f) ==
  IF ~f.exists THEN Invalid("ENOENT")
  ELSE IF f.size > maxFileSize THEN Invalid("File size exceeds maximum")
  ELSE IF toLowerCase(f.ext) \notin supportedFormats
    THEN Invalid("Unsupported file format")
  ELSE IF ~getAudioInfo(f).valid THEN Invalid(getAudioInfo(f).error)
  ELSE IF getAudioInfo(f).duration > maxDuration
    THEN Invalid("Audio duration exceeds maximum")
  ELSE Valid

validateAudioFile_call ==
  /\ validation.pc = "called"
  /\ validation' = [validation EXCEPT !.pc = "returned",
                       !.result = validateAudioFile(validation.file)]
  /\ UNCHANGED <<jobVars, selection, conversion, batch, post>>

InitValidate ==
  /\ JobInit
  /\ selection = NoCall
  /\ validation \in [pc : {"called"},
                     file : [exists : BOOLEAN, ext : Extensions,
                             size : StatSizes, probe : ProbeOutcomes,
                             rawDuration : RawDurations],
                     result : {Invalid("none")}]
  /\ conversion = NoCall
  /\ batch = NoCall
  /\ post = NoCall

NextValidate == validateAudioFile_call

\* Calls of validateAudioFile on every file.
SpecValidate == InitValidate /\ [][NextValidate]_vars


\* ------------------------- convertAudio, extractAudioFromVideo, splitAudio
\* The output files are numbered: the outputPath of convertAudio and of
\* extractAudioFromVideo is OutputPath, chunk_00<i>.wav of splitAudio is i.
\* conversion.files is the set of output files that exist.
OutputPath == 0
NoPath     == -1

\* How a run of ffmpeg ends: 'end' (the output is written), 'end' with the
\* following stat / ffprobe of the output throwing, or 'error' before or
\* after ffmpeg has begun to write the output.
FfmpegOutcomes == {"end", "endInfoError", "errorNoFile", "errorPartial"}

\* Durations of the input of splitAudio and chunk durations, in seconds
\* (300 is the default chunkDuration).
TotalDurations == {0, 1, 300, 301, 1800, 3599, 3600, 3601, 10800}
ChunkDurations == {300, 1800, 3600}

Written(out) == out \in {"end", "endInfoError", "errorPartial"}

\* Lines 1165-1250 (convertAudio) and 1100-1160 (extractAudioFromVideo):
\* the promise resolves on 'end' and rejects on 'error' or when the stat /
\* getAudioInfo of the output throws; the catch block logs and rethrows.
\* Nothing removes the output file.
convertAudio(out) ==
  /\ conversion.pc = "called"
  /\ conversion.op = "convertAudio"
  /\ conversion' = [conversion EXCEPT
        !.pc = IF out = "end" THEN "resolved" ELSE "rejected",
        !.files = IF Written(out) THEN @ \cup {OutputPath} ELSE @,
        !.failed = IF out \in {"errorNoFile", "errorPartial"}
                   THEN OutputPath ELSE NoPath]
  /\ UNCHANGED <<jobVars, selection, validation, batch, post>>

extractAudioFromVideo(out) ==
  /\ conversion.pc = "called"
  /\ conversion.op = "extractAudioFromVideo"
  /\ conversion' = [conversion EXCEPT
        !.pc = IF out = "end" THEN "resolved" ELSE "rejected",
        !.files = IF Written(out) THEN @ \cup {OutputPath} ELSE @,
        !.failed = IF out \in {"errorNoFile", "errorPartial"}
                   THEN OutputPath ELSE NoPath]
  /\ UNCHANGED <<jobVars, selection, validation, batch, post>>

\* Math.floor in the place of Math.ceil.
numChunks_floor(totalDuration, chunkDuration) ==
  totalDuration \div chunkDuration

\* Line 1275: Math.ceil(totalDuration / chunkDuration).
numChunks(totalDuration, chunkDuration) ==
  (totalDuration + chunkDuration - 1) \div chunkDuration

\* The duration ffprobe reports for the chunk cut at startTime.
chunkInfoDuration(totalDuration, chunkDuration, startTime) ==
  IF totalDuration - startTime < chunkDuration
  THEN totalDuration - startTime ELSE chunkDuration

\* splitAudio, lines 1255-1283: mkdir, getAudioInfo of the input (probe is
\* its outcome), numChunks.
splitAudio_start(probe) ==
  /\ conversion.pc = "called"
  /\ conversion.op = "splitAudio"
  /\ conversion' =
       IF probe # "audio" THEN [conversion EXCEPT !.pc = "rejected"]
       ELSE [conversion EXCEPT !.pc = "loop", !.i = 0,
               !.numChunks = numChunks(conversion.totalDuration,
                                       conversion.chunkDuration)]
  /\ UNCHANGED <<jobVars, selection, validation, batch, post>>

\* splitAudio, lines 1286-1300: one turn of the loop.  extractAudioSegment
\* (1326-1343) resolves on 'end' and rejects on 'error'; getAudioInfo of the
\* chunk may throw; either error leaves the loop by the catch block of
\* lines 1317-1320, which rethrows.  Nothing removes the chunk files.
splitAudio_extract(out) ==
  /\ conversion.pc = "loop"
  /\ conversion.i < conversion.numChunks
  /\ LET i == conversion.i
         startTime == i * conversion.chunkDuration IN
     conversion' =
       IF out = "end"
       THEN [conversion EXCEPT !.i = i + 1, !.files = @ \cup {i},
               !.chunks = Append(@, [index |-> i, path |-> i,
                   startTime |-> startTime,
                   duration |-> chunkInfoDuration(conversion.totalDuration,
                                   conversion.chunkDuration, startTime)])]
       ELSE [conversion EXCEPT !.pc = "rejected",
               !.files = IF Written(out) THEN @ \cup {i} ELSE @,
               !.failed = IF out = "endInfoError" THEN NoPath ELSE i]
  /\ UNCHANGED <<jobVars, selection, validation, batch, post>>

\* splitAudio, lines 1302-1315: the loop is over, the chunks are returned.
splitAudio_return ==
  /\ conversion.pc = "loop"
  /\ conversion.i >= conversion.numChunks
  /\ conversion' = [conversion EXCEPT !.pc = "resolved"]
  /\ UNCHANGED <<jobVars, selection, validation, batch, post>>

ConversionCall(op, total, chunk) ==
  [pc |-> "called", op |-> op, totalDuration |-> total,
   chunkDuration |-> chunk, numChunks |-> 0, i |-> 0, chunks |-> <<>>,
   files |-> {}, failed |-> NoPath]

InitConvert ==
  /\ JobInit
  /\ selection = NoCall
  /\ validation = NoCall
  /\ conversion \in
       {ConversionCall(op, 0, 300) :
           op \in {"convertAudio", "extractAudioFromVideo"}}
       \cup {ConversionCall("splitAudio", total, chunk) :
               total \in TotalDurations, chunk \in ChunkDurations}
  /\ batch = NoCall
  /\ post = NoCall

NextConvert ==
  \/ \E out \in FfmpegOutcomes : convertAudio(out)
  \/ \E out \in FfmpegOutcomes : extractAudioFromVideo(out)
  \/ \E probe \in ProbeOutcomes : splitAudio_start(probe)
  \/ \E out \in FfmpegOutcomes : splitAudio_extract(out)
  \/ splitAudio_return

\* Calls of the conversions of AudioProcessingService.
SpecConvert == InitConvert /\ [][NextConvert]_vars


\* -------------------------------------------------------- batchTranscribe
MaxPaths == 3           \* files handed to one call of batchTranscribe

\* The audioPaths of a call: up to MaxPaths distinct files, numbered; the
\* chunks of splitAudio in index order are <<0, 1, ...>>.
AudioPaths ==
  UNION {{ps \in [1..n -> 0..(MaxPaths - 1)] :
             \A a, b \in 1..n : ps[a] = ps[b] => a = b} : n \in 0..MaxPaths}

\* options.batchSize || 5.
BatchSizes == {1, 2, 5}

\* startTime of the segments a provider returns for one file, in seconds
\* from the start of that file.
SegmentStarts == {<<>>, <<0>>, <<0, 2>>}

NoPromise == [state |-> "none", success |-> FALSE, audioPath |-> NoPath,
              segments |-> <<>>]

\* Lines 495-506: what the async function of one file returns; it catches
\* the error of transcribe, so its promise never rejects.
Settled(path, ok, segs) ==
  [state |-> "settled", success |-> ok, audioPath |-> path,
   segments |-> IF ok THEN segs ELSE <<>>]

BatchOf(i, size, n) == {k \in 1..n : i < k /\ k <= i + size}

\* Lines 492-506: the next batch is sliced and a transcribe call is started
\* for each of its files.
batchTranscribe_startBatch ==
  /\ batch.pc = "loop"
  /\ batch.i < Len(batch.audioPaths)
  /\ batch' = [batch EXCEPT !.pc = "allSettled",
        !.promises = [k \in DOMAIN batch.promises |->
            IF k \in BatchOf(batch.i, batch.batchSize, Len(batch.audioPaths))
            THEN [NoPromise EXCEPT !.state = "pending"]
            ELSE batch.promises[k]]]
  /\ UNCHANGED <<jobVars, selection, validation, conversion, post>>

\* Lines 497-505: the transcribe call of file k ends, with a result or an
\* error, at any time after the batch was started.
transcribe_settle(k, ok, segs) ==
  /\ batch.pc = "allSettled"
  /\ k \in DOMAIN batch.promises
  /\ batch.promises[k].state = "pending"
  /\ batch' = [batch EXCEPT
        !.promises[k] = Settled(batch.audioPaths[k], ok, segs),
        !.order = Append(@, k)]
  /\ UNCHANGED <<jobVars, selection, validation, conversion, post>>

\* The batch in the order its promises settled.
InCompletionOrder(b) ==
  SelectSeq(b.order, LAMBDA k :
     k \in BatchOf(b.i, b.batchSize, Len(b.audioPaths)))

\* The batch in the order of audioPaths (Promise.allSettled keeps the
\* order of the promises it is given).
InInputOrder(b) ==
  LET ks == BatchOf(b.i, b.batchSize, Len(b.audioPaths)) IN
  [j \in 1..Cardinality(ks) |-> b.i + j]

\* batchTranscribe pushing the results of a batch as they settle.
batchTranscribe_pushSettled(b) ==
  LET ks == InCompletionOrder(b) IN
  b.results \o [j \in 1..Len(ks) |-> b.promises[ks[j]]]

\* Lines 508-509: results.push(...batchResults.map(r => r.value || r.reason)).
batchTranscribe_push(b) ==
  LET ks == InInputOrder(b) IN
  b.results \o [j \in 1..Len(ks) |-> b.promises[ks[j]]]

\* Lines 508-515: every promise of the batch has settled; the results are
\* pushed, the delay between batches is awaited, i += batchSize.
batchTranscribe_collect ==
  /\ batch.pc = "allSettled"
  /\ \A k \in BatchOf(batch.i, batch.batchSize, Len(batch.audioPaths)) :
        batch.promises[k].state = "settled"
  /\ batch' = [batch EXCEPT !.pc = "loop",
                  !.results = batchTranscribe_push(batch),
                  !.i = batch.i + batch.batchSize]
  /\ UNCHANGED <<jobVars, selection, validation, conversion, post>>

\* Lines 517-534: the loop is over; the results and the summary are
\* returned.
batchTranscribe_return ==
  /\ batch.pc = "loop"
  /\ batch.i >= Len(batch.audioPaths)
  /\ batch' = [batch EXCEPT !.pc = "returned"]
  /\ UNCHANGED <<jobVars, selection, validation, conversion, post>>

InitBatch ==
  /\ JobInit
  /\ selection = NoCall
  /\ validation = NoCall
  /\ conversion = NoCall
  /\ batch \in {[pc |-> "loop", audioPaths |-> ps, batchSize |-> size,
                 i |-> 0, promises |-> [k \in 1..Len(ps) |-> NoPromise],
                 order |-> <<>>, results |-> <<>>] :
                   ps \in AudioPaths, size \in BatchSizes}
  /\ post = NoCall

NextBatch ==
  \/ batchTranscribe_startBatch
  \/ \E k \in 1..MaxPaths, ok \in BOOLEAN, segs \in SegmentStarts :
        transcribe_settle(k, ok, segs)
  \/ batchTranscribe_collect
  \/ batchTranscribe_return

\* Calls of batchTranscribe, the transcriptions of a batch settling in any
\* order.
SpecBatch == InitBatch /\ [][NextBatch]_vars


\* ----------------------------------------------------- mergeShortSegments
MaxLen == 3             \* segments in the input of a post-processing call

\* Times are in half seconds, confidences in thousandths.
Second == 2

\* A segment: { startTime, endTime, text, confidence, type }.  type is
\* 'paragraph_break' for the markers of addParagraphBreaks (lines 862-870)
\* and undefined ("speech" here) for the segments of a provider.
Segment(start, end, text, conf, type) ==
  [startTime |-> start, endTime |-> end, text |-> text,
   confidence |-> conf, type |-> type]

\* null, the initial value of currentMerge.
null == Segment(0, 0, "", 0, "null")

\* Segment lists of up to MaxLen segments that follow one another without
\* a gap: the k-th has text "a", "b", ..., a duration of half a second, one
\* second or two seconds and a confidence of 0.4 or 0.8, or is a marker.
SegmentTexts == <<"a", "b", "c", "d">>
SegmentKinds ==
  {[duration |-> d, confidence |-> c, type |-> "speech"] :
      d \in {1, 2, 4}, c \in {400, 800}}
  \cup {[duration |-> d, confidence |-> 1000, type |-> "paragraph_break"] :
      d \in {1, 2, 4}}

RECURSIVE StartOf(_, _)
StartOf(kinds, k) ==
  IF k = 1 THEN 0 ELSE StartOf(kinds, k - 1) + kinds[k - 1].duration

SegmentsOf(kinds) ==
  [k \in 1..Len(kinds) |->
     Segment(StartOf(kinds, k), StartOf(kinds, k) + kinds[k].duration,
             IF kinds[k].type = "speech" THEN SegmentTexts[k] ELSE "\n\n",
             kinds[k].confidence, kinds[k].type)]

SegmentLists ==
  UNION {{SegmentsOf(kinds) : kinds \in [1..n -> SegmentKinds]} :
            n \in 0..MaxLen}

\* minDuration: one second, and the default of two seconds.
MinDurations == {1 * Second, 2 * Second}

\* The test of line 887 with <= in the place of <.
isShort_orEqual(segment, minDuration) ==
  /\ segment.endTime - segment.startTime <= minDuration
  /\ segment.type # "paragraph_break"

\* Lines 885-887: duration < minDuration && type !== 'paragraph_break'.
isShort(segment, minDuration) ==
  /\ segment.endTime - segment.startTime < minDuration
  /\ segment.type # "paragraph_break"

\* Lines 884-903: the loop of mergeShortSegments over the segments left,
\* and lines 905-909 when none is left.
RECURSIVE mergeLoop(_, _, _, _)
mergeLoop(segments, minDuration, currentMerge, mergedSegments) ==
  IF segments = <<>>
  THEN IF currentMerge # null THEN Append(mergedSegments, currentMerge)
       ELSE mergedSegments
  ELSE LET segment == Head(segments) IN
       IF isShort(segment, minDuration)
       THEN IF currentMerge = null
            THEN mergeLoop(Tail(segments), minDuration, segment,
                           mergedSegments)
            ELSE mergeLoop(Tail(segments), minDuration,
                   [currentMerge EXCEPT
                      !.text = @ \o " " \o segment.text,
                      !.endTime = segment.endTime,
                      !.confidence = (@ + segment.confidence) \div 2],
                   mergedSegments)
       ELSE mergeLoop(Tail(segments), minDuration, null,
              Append(IF currentMerge # null
                     THEN Append(mergedSegments, currentMerge)
                     ELSE mergedSegments, segment))

\* speechToTextService.js 880-910.
mergeShortSegments(segments, minDuration) ==
  mergeLoop(segments, minDuration, null, <<>>)

mergeShortSegments_call ==
  /\ post.pc = "called"
  /\ post.fn = "mergeShortSegments"
  /\ post' = [post EXCEPT !.pc = "returned",
                 !.output = mergeShortSegments(post.segments, post.minDuration)]
  /\ UNCHANGED <<jobVars, selection, validation, conversion, batch>>

InitPost ==
  /\ JobInit
  /\ selection = NoCall
  /\ validation = NoCall
  /\ conversion = NoCall
  /\ batch = NoCall
  /\ post \in [pc : {"called"}, fn : {"mergeShortSegments"},
               segments : SegmentLists, minDuration : MinDurations,
               output : {<<>>}]

NextPost == mergeShortSegments_call

\* Calls of the post-processing functions of SpeechToTextService.
SpecPost == InitPost /\ [][NextPost]_vars


\* ------------------------------------------------ postProcessTranscription
\* Defaults of addParagraphBreaks (line 850) and mergeShortSegments
\* (line 880), in half seconds.
silenceThreshold == 3 * Second
defaultMinDuration == 2 * Second

\* Thresholds of a direct call of addParagraphBreaks.
Thresholds == {silenceThreshold, 4 * Second}

\* Silence before a segment: none, exactly the default threshold, more.
Gaps == {0, 3 * Second, 4 * Second}

\* The text a provider returns for the k-th segment, with the white space
\* cleanTranscriptText removes.
RawTexts == <<" a", "b  b", "c ", "d">>

\* Lines 840-845: runs of white space become one space, then the text is
\* trimmed (the texts here hold no character that the second replace
\* removes).
cleanTranscriptText(text) ==
  CASE text = " a" -> "a"
    [] text = "b  b" -> "b b"
    [] text = "c " -> "c"
    [] text = "\n\n" -> ""
    [] OTHER -> text

\* Segments as a provider returns them: speech only, each after a silence;
\* GappedLists(maxLen) are the lists of up to maxLen of them.
GappedKinds ==
  [gap : Gaps, duration : {1, 2 * Second}, confidence : {400, 800}]

RECURSIVE GappedStart(_, _)
GappedStart(kinds, k) ==
  IF k = 1 THEN kinds[1].gap
  ELSE GappedStart(kinds, k - 1) + kinds[k - 1].duration + kinds[k].gap

GappedSegments(kinds) ==
  [k \in 1..Len(kinds) |->
     Segment(GappedStart(kinds, k), GappedStart(kinds, k) + kinds[k].duration,
             RawTexts[k], kinds[k].confidence, "speech")]

GappedLists(maxLen) ==
  UNION {{GappedSegments(kinds) : kinds \in [1..n -> GappedKinds]} :
            n \in 0..maxLen}

\* Lines 862-870: the marker pushed after segment current (its id and its
\* speaker 'system' are left out of the record).
breakMarker(current, next) ==
  Segment(current.endTime, next.startTime, "\n\n", 1000, "paragraph_break")

\* Lines 859-860: nextSegment && (next.startTime - current.endTime) >
\* silenceThreshold.
longPause(segments, i, threshold) ==
  /\ i + 1 <= Len(segments)
  /\ segments[i + 1].startTime - segments[i].endTime > threshold

\* Lines 853-872: the loop of addParagraphBreaks from index i on.
RECURSIVE breaksLoop(_, _, _, _)
breaksLoop(segments, i, threshold, processedSegments) ==
  IF i > Len(segments) THEN processedSegments
  ELSE LET pushed == Append(processedSegments, segments[i]) IN
       breaksLoop(segments, i + 1, threshold,
         IF longPause(segments, i, threshold)
         THEN Append(pushed, breakMarker(segments[i], segments[i + 1]))
         ELSE pushed)

\* speechToTextService.js 850-875.
addParagraphBreaks(segments, threshold) ==
  breaksLoop(segments, 1, threshold, <<>>)

addParagraphBreaks_call ==
  /\ post.pc = "called"
  /\ post.fn = "addParagraphBreaks"
  /\ post' = [post EXCEPT !.pc = "returned",
                 !.output = addParagraphBreaks(post.segments, post.threshold)]
  /\ UNCHANGED <<jobVars, selection, validation, conversion, batch>>

\* segments.map(s => s.text).join(' ') (lines 192, 811).
RECURSIVE joinTexts(_)
joinTexts(segments) ==
  IF segments = <<>> THEN ""
  ELSE IF Len(segments) = 1 THEN segments[1].text
  ELSE segments[1].text \o " " \o joinTexts(Tail(segments))

RECURSIVE sumConfidence(_)
sumConfidence(segments) ==
  IF segments = <<>> THEN 0
  ELSE Head(segments).confidence + sumConfidence(Tail(segments))

\* Lines 788-795, rounded down to a thousandth.
calculateAverageConfidence(segments) ==
  IF Len(segments) = 0 THEN 0 ELSE sumConfidence(segments) \div Len(segments)

\* The result of a provider handed to postProcessTranscription at line 132:
\* its text and its confidence are computed from the segments by the
\* transcribeWith... function (lines 192-194).
ProviderResult(segments) ==
  [segments |-> segments, text |-> joinTexts(segments),
   confidence |-> calculateAverageConfidence(segments)]

\* options.cleanText, .addParagraphs, .mergeShortSegments (!== false).
PostOptions ==
  [cleanText : BOOLEAN, addParagraphs : BOOLEAN, mergeShortSegments : BOOLEAN]

\* Lines 802-812: processedResult = { ...result }, then the clean-up of the
\* segment texts and of the joined text.
postProcessTranscription_clean ==
  /\ post.pc = "called"
  /\ post.fn = "postProcessTranscription"
  /\ post' = IF post.options.cleanText
             THEN LET cleaned == [k \in 1..Len(post.result.segments) |->
                        [post.result.segments[k] EXCEPT
                           !.text = cleanTranscriptText(@)]] IN
                  [post EXCEPT !.pc = "addParagraphs",
                      !.processedResult = [post.result EXCEPT
                          !.segments = cleaned, !.text = joinTexts(cleaned)],
                      !.steps = Append(@, "clean")]
             ELSE [post EXCEPT !.pc = "addParagraphs",
                      !.processedResult = post.result]
  /\ UNCHANGED <<jobVars, selection, validation, conversion, batch>>

\* Lines 814-817.
postProcessTranscription_addParagraphs ==
  /\ post.pc = "addParagraphs"
  /\ post' = IF post.options.addParagraphs
             THEN [post EXCEPT !.pc = "mergeShortSegments",
                      !.processedResult.segments =
                          addParagraphBreaks(@, silenceThreshold),
                      !.steps = Append(@, "addParagraphs")]
             ELSE [post EXCEPT !.pc = "mergeShortSegments"]
  /\ UNCHANGED <<jobVars, selection, validation, conversion, batch>>

\* Lines 819-822; mergeInput records the list handed to mergeShortSegments.
postProcessTranscription_mergeShortSegments ==
  /\ post.pc = "mergeShortSegments"
  /\ post' = IF post.options.mergeShortSegments
             THEN [post EXCEPT !.pc = "addPunctuation",
                      !.mergeInput = post.processedResult.segments,
                      !.processedResult.segments =
                          mergeShortSegments(@, defaultMinDuration),
                      !.steps = Append(@, "mergeShortSegments")]
             ELSE [post EXCEPT !.pc = "addPunctuation"]
  /\ UNCHANGED <<jobVars, selection, validation, conversion, batch>>

\* Lines 824-829: addPunctuation returns the segments as they are
\* (lines 914-918), and processedResult is returned.
postProcessTranscription_return ==
  /\ post.pc = "addPunctuation"
  /\ post' = [post EXCEPT !.pc = "returned"]
  /\ UNCHANGED <<jobVars, selection, validation, conversion, batch>>

InitPipeline ==
  /\ JobInit
  /\ selection = NoCall
  /\ validation = NoCall
  /\ conversion = NoCall
  /\ batch = NoCall
  /\ \/ post \in [pc : {"called"}, fn : {"addParagraphBreaks"},
                  segments : GappedLists(MaxLen), threshold : Thresholds,
                  output : {<<>>}]
     \/ \E segments \in GappedLists(MaxLen) :
          post \in [pc : {"called"}, fn : {"postProcessTranscription"},
                    options : PostOptions,
                    result : {ProviderResult(segments)},
                    processedResult : {ProviderResult(<<>>)},
                    mergeInput : {<<>>}, steps : {<<>>}]

NextPipeline ==
  \/ addParagraphBreaks_call
  \/ postProcessTranscription_clean
  \/ postProcessTranscription_addParagraphs
  \/ postProcessTranscription_mergeShortSegments
  \/ postProcessTranscription_return

\* Calls of addParagraphBreaks and of postProcessTranscription on the
\* result of a provider.
SpecPipeline == InitPipeline /\ [][NextPipeline]_vars


\* ------------------------------------------------------ provider parsers
\* Confidences are in thousandths.  undefined stands for a field the
\* provider's response does not hold.
undefined == -999999

\* a || b of JavaScript on numbers: b when a is undefined, 0 or NaN.
orElse(a, b) == IF a = undefined \/ a = 0 \/ a = NaN THEN b ELSE a

\* Confidences a provider reports: none, 0, 0.5, 0.95.
Reported == {undefined, 0, 500, 950}

\* avg_logprob of a Whisper segment, in thousandths: none, 0, ln 0.8,
\* ln 0.5.
LogProbs == {undefined, 0, -223, -693}

\* Math.exp on the values of LogProbs, in thousandths.
exp(x) == CASE x = 0 -> 1000 [] x = -223 -> 800 [] x = -693 -> 500

\* Responses of up to MaxLen utterances, segments or results.
ListsOf(S) == UNION {[1..n -> S] : n \in 0..MaxLen}

\* A parsed segment: the k-th of the response, with its confidence.
Parsed(k, conf) == Segment(k - 1, k, SegmentTexts[k], conf, "speech")

\* Lines 595-633: hypotheses[0].utterances, or the simple transcript.
parseFPTResponse(data) ==
  IF data.shape = "utterances"
  THEN [k \in 1..Len(data.utterances) |->
          Parsed(k, orElse(data.utterances[k], 500))]
  ELSE IF data.shape = "simple"
  THEN <<Segment(0, 0, "a", orElse(data.confidence, 500), "speech")>>
  ELSE <<>>

FPTResponses ==
  {[shape |-> "utterances", utterances |-> u, confidence |-> undefined] :
      u \in ListsOf(Reported)}
  \cup {[shape |-> "simple", utterances |-> <<>>, confidence |-> c] :
      c \in Reported}
  \cup {[shape |-> "empty", utterances |-> <<>>, confidence |-> undefined]}

\* Line 649: segment.avg_logprob ? Math.exp(segment.avg_logprob) : 0.8.
whisperConfidence(avg_logprob) ==
  IF avg_logprob # undefined /\ avg_logprob # 0 THEN exp(avg_logprob)
  ELSE 800

\* Lines 638-672: data.segments, or the simple response.
parseWhisperResponse(data) ==
  IF data.shape = "segments"
  THEN [k \in 1..Len(data.segments) |->
          Parsed(k, whisperConfidence(data.segments[k]))]
  ELSE <<Segment(0, 0, "a", 800, "speech")>>

WhisperResponses ==
  {[shape |-> "segments", segments |-> l] : l \in ListsOf(LogProbs)}
  \cup {[shape |-> "simple", segments |-> <<>>]}

\* Lines 677-705: one segment for each result with an alternative
\* (here every result has one).
parseGoogleResponse(response) ==
  [k \in 1..Len(response.results) |->
     Parsed(k, orElse(response.results[k], 500))]

GoogleResponses == {[results |-> r] : r \in ListsOf(Reported)}

\* AWS Transcribe gives its times and confidences as strings.  A string of
\* digits and one '.' is a sequence of digits with dot for '.', which
\* orders as the characters do ('.' is before '0').
dot == -1
Str(int, tenth) ==
  IF int < 10 THEN <<int, dot, tenth>>
  ELSE <<int \div 10, int % 10, dot, tenth>>

\* a < b on strings: the first character that differs decides, and a
\* proper prefix is smaller.
RECURSIVE strLess(_, _)
strLess(a, b) ==
  IF b = <<>> THEN FALSE
  ELSE IF a = <<>> THEN TRUE
  ELSE IF Head(a) # Head(b) THEN Head(a) < Head(b)
  ELSE strLess(Tail(a), Tail(b))

\* parseFloat of such a string, in thousandths.
RECURSIVE parseDigits(_, _)
parseDigits(str, acc) ==
  IF str = <<>> THEN acc * 1000
  ELSE IF Head(str) = dot THEN acc * 1000 + str[2] * 100
  ELSE parseDigits(Tail(str), acc * 10 + Head(str))

parseFloat(str) == parseDigits(str, 0)

\* The words of a recording, each with the time it starts and ends at, and
\* the confidences of a word item.
awsWords ==
  <<[start_time |-> Str(8, 0), end_time |-> Str(8, 6)],
    [start_time |-> Str(9, 5), end_time |-> Str(9, 9)],
    [start_time |-> Str(10, 1), end_time |-> Str(10, 4)],
    [start_time |-> Str(10, 6), end_time |-> Str(10, 9)]>>
awsConfidences == {Str(0, 4), Str(0, 8)}
awsItems(confs) ==
  [i \in 1..Len(awsWords) |->
     [start_time |-> awsWords[i].start_time,
      end_time |-> awsWords[i].end_time, content |-> SegmentTexts[i],
      confidence |-> confs[i]]]

\* The speaker segment of the words a to b: from the start of the first to
\* the end of the last.
awsSpan(a, b) ==
  [start_time |-> awsWords[a].start_time, end_time |-> awsWords[b].end_time]

\* A response with speaker labels: the items of the words, and one or two
\* speaker segments that follow one another.
awsIndexes == 1..Len(awsWords)
AWSResponses ==
  {[shape |-> "speaker_labels", items |-> awsItems(confs),
    segments |-> segs] :
      confs \in [awsIndexes -> awsConfidences],
      segs \in {<<awsSpan(q[1], q[2])>> :
                  q \in {r \in awsIndexes \X awsIndexes : r[1] <= r[2]}}
               \cup {<<awsSpan(q[1], q[2]), awsSpan(q[2] + 1, q[3])>> :
                  q \in {r \in awsIndexes \X awsIndexes \X awsIndexes :
                           r[1] <= r[2] /\ r[2] < r[3]}}}
  \cup {[shape |-> "transcript", items |-> <<>>, segments |-> <<>>]}

\* Lines 746-749: the items within the segment, the times compared as the
\* strings they are.
RECURSIVE awsFilter(_, _)
awsFilter(items, segment) ==
  IF items = <<>> THEN <<>>
  ELSE LET item == Head(items) IN
       IF /\ ~strLess(item.start_time, segment.start_time)
          /\ ~strLess(segment.end_time, item.end_time)
       THEN <<item>> \o awsFilter(Tail(items), segment)
       ELSE awsFilter(Tail(items), segment)

RECURSIVE awsSum(_)
awsSum(items) ==
  IF items = <<>> THEN 0
  ELSE parseFloat(Head(items).confidence) + awsSum(Tail(items))

\* Line 751: items.map(item => item.alternatives[0].content).join(' ').
RECURSIVE joinContents(_)
joinContents(items) ==
  IF items = <<>> THEN ""
  ELSE IF Len(items) = 1 THEN items[1].content
  ELSE items[1].content \o " " \o joinContents(Tail(items))

\* Lines 758-759: the sum of the confidences over items.length, which is
\* 0 / 0 = NaN for no item; rounded down to a thousandth otherwise.
awsConfidence(items) ==
  IF Len(items) = 0 THEN NaN ELSE awsSum(items) \div Len(items)

\* Lines 734-783 (times in thousandths of a second).
parseAWSResponse(data) ==
  IF data.shape = "speaker_labels"
  THEN [k \in 1..Len(data.segments) |->
          LET items == awsFilter(data.items, data.segments[k]) IN
          Segment(parseFloat(data.segments[k].start_time),
                  parseFloat(data.segments[k].end_time),
                  joinContents(items), awsConfidence(items), "speech")]
  ELSE <<Segment(0, 0, "a", 800, "speech")>>

parseFPTResponse_call ==
  /\ post.pc = "called"
  /\ post.fn = "parseFPTResponse"
  /\ post' = [post EXCEPT !.pc = "returned",
                 !.output = parseFPTResponse(post.data)]
  /\ UNCHANGED <<jobVars, selection, validation, conversion, batch>>

parseWhisperResponse_call ==
  /\ post.pc = "called"
  /\ post.fn = "parseWhisperResponse"
  /\ post' = [post EXCEPT !.pc = "returned",
                 !.output = parseWhisperResponse(post.data)]
  /\ UNCHANGED <<jobVars, selection, validation, conversion, batch>>

parseGoogleResponse_call ==
  /\ post.pc = "called"
  /\ post.fn = "parseGoogleResponse"
  /\ post' = [post EXCEPT !.pc = "returned",
                 !.output = parseGoogleResponse(post.data)]
  /\ UNCHANGED <<jobVars, selection, validation, conversion, batch>>

parseAWSResponse_call ==
  /\ post.pc = "called"
  /\ post.fn = "parseAWSResponse"
  /\ post' = [post EXCEPT !.pc = "returned",
                 !.output = parseAWSResponse(post.data)]
  /\ UNCHANGED <<jobVars, selection, validation, conversion, batch>>

ParserCall(fn, responses) ==
  post \in [pc : {"called"}, fn : {fn}, data : responses, output : {<<>>}]

InitParse ==
  /\ JobInit
  /\ selection = NoCall
  /\ validation = NoCall
  /\ conversion = NoCall
  /\ batch = NoCall
  /\ \/ ParserCall("parseFPTResponse", FPTResponses)
     \/ ParserCall("parseWhisperResponse", WhisperResponses)
     \/ ParserCall("parseGoogleResponse", GoogleResponses)
     \/ ParserCall("parseAWSResponse", AWSResponses)

NextParse ==
  \/ parseFPTResponse_call
  \/ parseWhisperResponse_call
  \/ parseGoogleResponse_call
  \/ parseAWSResponse_call

\* Calls of the response parsers of SpeechToTextService.
SpecParse == InitParse /\ [][NextParse]_vars


\* ------------------------------------------------ updateSpeakerStatistics
\* Transcript.content.segments: times in half seconds, confidences in
\* units of the schema's 0..100 scale, each segment with its speaker.id.
SpeakerIds == {"s1", "s2"}
SpokenKinds ==
  [speaker : SpeakerIds, duration : {1, 2, 3}, confidence : {40, 80}]

RECURSIVE SpokenStart(_, _)
SpokenStart(kinds, k) ==
  IF k = 1 THEN 0 ELSE SpokenStart(kinds, k - 1) + kinds[k - 1].duration

SpokenSegments(kinds) ==
  [k \in 1..Len(kinds) |->
     [startTime |-> SpokenStart(kinds, k),
      endTime |-> SpokenStart(kinds, k) + kinds[k].duration,
      speaker |-> kinds[k].speaker, confidence |-> kinds[k].confidence]]

SpokenLists(maxLen) ==
  UNION {{SpokenSegments(kinds) : kinds \in [1..n -> SpokenKinds]} :
            n \in 0..maxLen}

\* Transcript.content.speakers before the call: no speaker, one, or both,
\* with the statistics of the schema's defaults or of an earlier save.
Speaker(id, time, count, confidence) ==
  [id |-> id, totalSpeakingTime |-> time, segmentCount |-> count,
   averageConfidence |-> confidence]
SpeakerLists ==
  {[k \in 1..Len(ids) |-> Speaker(ids[k], old, old, old)] :
      ids \in {<<>>, <<"s1">>, <<"s2">>, <<"s1", "s2">>}, old \in {0, 9}}

\* Math.round(num / den) for num >= 0 and den > 0: halves round up.
roundDiv(num, den) == (2 * num + den) \div (2 * den)

\* Lines 1353-1369: the statistics of the segments of one speaker id:
\* totalTime (in half seconds), segmentCount, totalConfidence.
RECURSIVE speakerStats(_, _)
speakerStats(segments, id) ==
  IF segments = <<>>
  THEN [totalTime |-> 0, segmentCount |-> 0, totalConfidence |-> 0]
  ELSE LET segment == Head(segments)
           rest == speakerStats(Tail(segments), id) IN
       IF segment.speaker = id
       THEN [totalTime |->
                rest.totalTime + (segment.endTime - segment.startTime),
             segmentCount |-> rest.segmentCount + 1,
             totalConfidence |-> rest.totalConfidence + segment.confidence]
       ELSE rest

\* Lines 1340-1381: every speaker object is reset, and the ones with
\* segments get the rounded statistics (totalSpeakingTime in seconds).
updateSpeakerStatistics(segments, speakers) ==
  [k \in 1..Len(speakers) |->
     LET stats == speakerStats(segments, speakers[k].id) IN
     IF stats.segmentCount > 0
     THEN Speaker(speakers[k].id, roundDiv(stats.totalTime, Second),
                  stats.segmentCount,
                  roundDiv(stats.totalConfidence, stats.segmentCount))
     ELSE Speaker(speakers[k].id, 0, 0, 0)]

updateSpeakerStatistics_call ==
  /\ post.pc = "called"
  /\ post.fn = "updateSpeakerStatistics"
  /\ post' = [post EXCEPT !.pc = "returned",
                 !.speakers = updateSpeakerStatistics(post.segments, @)]
  /\ UNCHANGED <<jobVars, selection, validation, conversion, batch>>

InitSpeakers ==
  /\ JobInit
  /\ selection = NoCall
  /\ validation = NoCall
  /\ conversion = NoCall
  /\ batch = NoCall
  /\ post \in [pc : {"called"}, fn : {"updateSpeakerStatistics"},
               segments : SpokenLists(MaxLen), speakers : SpeakerLists]

NextSpeakers == updateSpeakerStatistics_call

\* Calls of Transcript.updateSpeakerStatistics.
SpecSpeakers == InitSpeakers /\ [][NextSpeakers]_vars


\* ------------------------------------------------------------ acquireLock
\* redis.js 512-516: a caller enters acquireLock and draws its lockValue.
acquireLock_start(c) ==
  /\ lock.pc[c] = "idle"
  /\ lock.next <= MaxAcquires
  /\ lock' = [lock EXCEPT !.pc[c] = "trying", !.value[c] = lock.next,
                 !.result[c] = -1, !.spared[c] = 0, !.next = @ + 1]
  /\ UNCHANGED <<transcripts, meetings, jobStatus, cache, queue, jobs, nextTid,
                 usage, billed, attempts, saves, notified, faults, viewVars,
                 libVars>>

\* Lines 517-534: SET lockKey lockValue PX ttl NX answers OK when the key
\* does not exist, and the lock object is returned (acquired: true).
acquireLock_set(c) ==
  /\ lock.pc[c] = "trying"
  /\ lock.key = 0
  /\ lock' = [lock EXCEPT !.key = lock.value[c], !.pc[c] = "acquired"]
  /\ UNCHANGED <<transcripts, meetings, jobStatus, cache, queue, jobs, nextTid,
                 usage, billed, attempts, saves, notified, faults, viewVars,
                 libVars>>

\* Lines 516, 536-540: the SET answered null until the timeout was over:
\* acquired: false.
acquireLock_timeout(c) ==
  /\ lock.pc[c] = "trying"
  /\ lock' = [lock EXCEPT !.pc[c] = "idle", !.value[c] = 0]
  /\ UNCHANGED <<transcripts, meetings, jobStatus, cache, queue, jobs, nextTid,
                 usage, billed, attempts, saves, notified, faults, viewVars,
                 libVars>>

\* The PX ttl of line 518 is over: Redis removes the key.
lockExpires ==
  /\ lock.key # 0
  /\ lock' = [lock EXCEPT !.key = 0]
  /\ UNCHANGED <<transcripts, meetings, jobStatus, cache, queue, jobs, nextTid,
                 usage, billed, attempts, saves, notified, faults, viewVars,
                 libVars>>

\* The script of release with the comparison left out: del in every case.
releaseScript_del(key, value) ==
  [key |-> 0, result |-> IF key # 0 THEN 1 ELSE 0]

\* Lines 526-532: the script of release, run by Redis in one step: the key
\* is deleted when it holds the caller's lockValue.
releaseScript(key, value) ==
  IF key = value THEN [key |-> 0, result |-> 1]
  ELSE [key |-> key, result |-> 0]

\* Lines 525-534: release() of the lock object a caller was given.
release(c) ==
  /\ lock.pc[c] = "acquired"
  /\ LET r == releaseScript(lock.key, lock.value[c]) IN
       lock' = [lock EXCEPT !.key = r.key, !.result[c] = r.result,
                   !.spared[c] = r.key, !.pc[c] = "idle"]
  /\ UNCHANGED <<transcripts, meetings, jobStatus, cache, queue, jobs, nextTid,
                 usage, billed, attempts, saves, notified, faults, viewVars,
                 libVars>>

NextLock ==
  \/ \E c \in LockCallers : acquireLock_start(c)
  \/ \E c \in LockCallers : acquireLock_set(c)
  \/ \E c \in LockCallers : acquireLock_timeout(c)
  \/ lockExpires
  \/ \E c \in LockCallers : release(c)

\* Callers of acquireLock on one key, the key expiring at any time.
SpecLock == Init /\ [][NextLock]_vars


\* ================================================================= claims
Terminal == {"completed", "failed"}

\* C1: a job never leaves a terminal state: once the Transcript record or
\* its job-status entry is completed or failed, no step changes that status
\* (the record may only disappear by deleteTranscript).
C1_TerminalStateIsFinal ==
  [][\A t \in TIds :
        /\ transcripts[t].status \in Terminal =>
              transcripts'[t].status \in {transcripts[t].status, "absent"}
        /\ jobStatus[t].status \in Terminal =>
              jobStatus'[t].status = jobStatus[t].status]_vars

\* C2: every job is created in status queued and enters processing only
\* from queued, by a claim that increments attempts.
C2_CreatedQueuedThenClaimed ==
  [][\A t \in TIds :
        /\ (transcripts[t].status = "absent" /\ transcripts'[t].status # "absent")
              => transcripts'[t].status = "queued"
        /\ (transcripts[t].status # "processing" /\ transcripts'[t].status = "processing")
              => (transcripts[t].status = "queued" /\ attempts'[t] = attempts[t] + 1)]_vars

\* C3: retry ceiling: a job that has failed on a transient provider error
\* has made exactly maxAttempts provider calls.
C3_RetryCeiling ==
  \A t \in TIds :
     (transcripts[t].status = "failed" /\ transcripts[t].error \in Transient)
        => attempts[t] = maxAttempts

\* C4: an invocation that caught a transient error while attempts <
\* maxAttempts requeues the job: its next step does not write 'failed'.
C4_TransientIsRequeued ==
  [][\A j \in JobIds :
        (/\ jobs[j].pc = "catchTranscript"
         /\ jobs[j].err \in Transient
         /\ attempts[jobs[j].tid] < maxAttempts
         /\ jobs'[j].pc # "catchTranscript")
        => transcripts'[jobs[j].tid].status # "failed"]_vars

\* A step in which an invocation of processTranscriptionJob starts for t.
StartsProcessing(j, t) ==
  /\ jobs[j].pc # "setJob"
  /\ jobs'[j].pc = "setJob"
  /\ jobs'[j].tid = t

\* C5: a job that failed on a permanent error has its error recorded and
\* is never processed again.
C5_PermanentFailureIsFinal ==
  [][\A t \in TIds :
        (transcripts[t].status = "failed" /\ transcripts[t].error \in Permanent)
        => /\ \A j \in JobIds : ~StartsProcessing(j, t)
           /\ attempts'[t] = attempts[t]]_vars

\* C6: a second claim of a job is rejected by a state guard: an invocation
\* handed a job whose job-status entry already exists does not run the
\* pipeline.
C6_SecondClaimRejected ==
  [][\A j \in JobIds :
        (/\ jobs[j].pc = "setJob"
         /\ jobs[j].tid # Undef
         /\ jobStatus[jobs[j].tid].status # "absent")
        => jobs'[j].pc \in {"setJob", "done"}]_vars

C9_TerminalJobNotified ==
  \A j \in JobIds :
     (/\ jobs[j].pc = "done"
      /\ jobs[j].tid # Undef
      /\ jobs[j].note \in {"sent", "skipped", "failed", "caught"})
     => notified[jobs[j].tid] >= 1

Survives(n) ==
  /\ n \in selection.enabled
  /\ selection.language \in sttConfig[n].languages
       \/ "auto" \in sttConfig[n].languages
  /\ selection.fileSize <= sttConfig[n].maxFileSize
  /\ sttConfig[n].maxDuration # NoLimit
       => selection.duration <= sttConfig[n].maxDuration

Survivors == {n \in sttServices : Survives(n)}

\* Place of a provider in the priority order.
Rank(n) == CHOOSE i \in 1..Len(priorityOrder) : priorityOrder[i] = n

\* C12: a provider returned by getBestSTTService is enabled, lists the
\* requested language or 'auto', and its size and duration limits are not
\* exceeded (a provider without maxDuration has no duration limit).
C12_SelectedIsSuitable ==
  (selection.pc = "returned" /\ selection.result.ok)
  => LET n == selection.result.name IN
       /\ n \in selection.enabled
       /\ selection.language \in sttConfig[n].languages
            \/ "auto" \in sttConfig[n].languages
       /\ selection.fileSize <= sttConfig[n].maxFileSize
       /\ sttConfig[n].maxDuration = NoLimit
            \/ selection.duration <= sttConfig[n].maxDuration

\* C12 witness: a provider is returned while an enabled provider of higher
\* priority that lists the language was excluded by its size limit.
C12_Witness ==
  /\ selection.pc = "returned"
  /\ selection.result.ok
  /\ selection.result.name = "google"
  /\ "fpt" \in selection.enabled
  /\ selection.language = "vi-VN"
  /\ selection.fileSize > sttConfig["fpt"].maxFileSize

\* C13: the provider returned is the surviving provider that comes first
\* in the priority order; when no survivor is named in the priority order
\* it is the first survivor of the registry.
C13_FirstInPriorityOrder ==
  (selection.pc = "returned" /\ selection.result.ok)
  => LET n == selection.result.name
         named == {m \in Survivors :
                     \E i \in 1..Len(priorityOrder) : priorityOrder[i] = m}
     IN /\ n \in Survivors
        /\ named # {} => /\ n \in named
                         /\ \A m \in named : Rank(n) <= Rank(m)
        /\ named = {} =>
             \E i \in 1..Len(registryOrder) :
                /\ registryOrder[i] = n
                /\ \A k \in 1..(i - 1) : registryOrder[k] \notin Survivors

\* C13 witness: several providers survive, an enabled provider of higher
\* priority does not, and the survivor of highest priority is returned.
C13_Witness ==
  /\ selection.pc = "returned"
  /\ selection.result.ok
  /\ selection.result.name = "whisper"
  /\ "fpt" \in selection.enabled
  /\ {"google", "azure"} \subseteq Survivors

\* The reasons a failed selection carries (specification, section 4.2,
\* step 5).
FilterReasons == {"UnsupportedLanguage", "FileTooLarge", "DurationTooLong"}

\* C14: getBestSTTService fails exactly when no provider survives the
\* filters, and the failure of a selection among enabled providers carries
\* the reason: unsupported language, file too large or duration too long.
C14_FailureCarriesReason ==
  selection.pc = "returned"
  => /\ ~selection.result.ok <=> Survivors = {}
     /\ (~selection.result.ok /\ selection.enabled # {})
          => selection.result.message \in FilterReasons

\* C15: validateAudioFile fails for every file whose extension is not in
\* the allow-list, whose size exceeds 500 MB, whose duration exceeds four
\* hours or that has no decodable audio stream, and succeeds for every
\* other file; a size or duration exactly at the ceiling is accepted.
C15_ValidateAcceptsExactlyValid ==
  (validation.pc = "returned" /\ validation.file.exists)
  => LET f == validation.file IN
     validation.result.valid
       <=> /\ toLowerCase(f.ext) \in supportedFormats
           /\ f.size <= 500 * 1024 * 1024
           /\ f.probe = "audio"
           /\ f.rawDuration # NaN => f.rawDuration <= 4 * 3600

\* C15 witness: a file at both ceilings is accepted.
C15_Witness ==
  /\ validation.pc = "returned"
  /\ validation.result.valid
  /\ validation.file.size = 500 * 1024 * 1024
  /\ validation.file.rawDuration = 4 * 3600

\* C16: when a conversion (convertAudio, extractAudioFromVideo, the
\* extractAudioSegment of splitAudio) has failed and its error has reached
\* the caller, the output file of that conversion does not exist.
C16_FailedConversionLeavesNoFile ==
  (conversion.pc = "rejected" /\ conversion.failed # NoPath)
  => conversion.failed \notin conversion.files

\* The least number of chunks of length c that cover a duration t.
CeilOf(t, c) == CHOOSE n \in 0..t : n * c >= t /\ (n > 0 => (n - 1) * c < t)

\* C17: splitAudio returns exactly ceil(totalDuration / chunkDuration)
\* chunks, with indexes 0..n-1 in order, chunk i starting at
\* i * chunkDuration; 3 hours in chunks of 1800 s are 6 chunks starting at
\* 0, 1800, ..., 9000.
C17_SplitChunkCountAndOffsets ==
  (conversion.pc = "resolved" /\ conversion.op = "splitAudio")
  => LET c == conversion.chunkDuration
         t == conversion.totalDuration
         chunks == conversion.chunks IN
     /\ Len(chunks) = CeilOf(t, c)
     /\ \A k \in 1..Len(chunks) : /\ chunks[k].index = k - 1
                                  /\ chunks[k].startTime = (k - 1) * c
     /\ (t = 3 * 3600 /\ c = 1800)
          => [k \in 1..Len(chunks) |-> chunks[k].startTime]
               = <<0, 1800, 3600, 5400, 7200, 9000>>

\* C17 witness: the 3-hour file has been split in 6 chunks of 1800 s.
C17_Witness ==
  /\ conversion.pc = "resolved"
  /\ conversion.op = "splitAudio"
  /\ conversion.totalDuration = 3 * 3600
  /\ conversion.chunkDuration = 1800
  /\ Len(conversion.chunks) = 6

\* The segment start times of a returned batch, result after result.
RECURSIVE AllStarts(_)
AllStarts(rs) ==
  IF rs = <<>> THEN <<>> ELSE Head(rs).segments \o AllStarts(Tail(rs))

\* The audioPaths are the chunks of one file, in index order.
IsChunked(ps) == Len(ps) >= 2 /\ \A k \in 1..Len(ps) : ps[k] = k - 1

\* C18: when the chunks of one file have been transcribed, the segments of
\* the results, taken in chunk order, have non-decreasing start times (the
\* segments of chunk k were offset by the duration of chunks 0..k-1).
C18_ChunkedSegmentsMonotonic ==
  (batch.pc = "returned" /\ IsChunked(batch.audioPaths))
  => LET starts == AllStarts(batch.results) IN
     \A x \in 1..(Len(starts) - 1) : starts[x] <= starts[x + 1]

\* C19: the results of batchTranscribe are in the order of audioPaths,
\* whatever the order in which the transcriptions settled: results[i]
\* belongs to audioPaths[i], and every file has its result on return.
C19_ResultsInInputOrder ==
  /\ batch.pc # "off" =>
       /\ Len(batch.results) <= Len(batch.audioPaths)
       /\ \A x \in 1..Len(batch.results) :
             batch.results[x].audioPath = batch.audioPaths[x]
  /\ batch.pc = "returned" => Len(batch.results) = Len(batch.audioPaths)

\* C19 witness: a batch has returned whose transcriptions settled in an
\* order other than the input order, one of them with an error.
C19_Witness ==
  /\ batch.pc = "returned"
  /\ \E x, y \in 1..Len(batch.order) : x < y /\ batch.order[x] > batch.order[y]
  /\ \E x \in 1..Len(batch.results) : ~batch.results[x].success
  /\ \E x \in 1..Len(batch.results) : batch.results[x].success

\* A segment the claim calls short: not a marker and shorter than m.
ShortAt(S, i, m) ==
  /\ S[i].type # "paragraph_break"
  /\ S[i].endTime - S[i].startTime < m

\* The positions of S at which an output segment begins: every segment
\* that is not short, and the first segment of every maximal run of short
\* segments.
EmitAt(S, m) ==
  {i \in 1..Len(S) : ~ShortAt(S, i, m) \/ i = 1 \/ ~ShortAt(S, i - 1, m)}

\* The last position of the maximal run of short segments that begins at i.
RunEnd(S, i, m) ==
  CHOOSE e \in i..Len(S) :
     /\ \A k \in i..e : ShortAt(S, k, m)
     /\ e = Len(S) \/ ~ShortAt(S, e + 1, m)

RECURSIVE JoinText(_, _, _)
JoinText(S, i, e) ==
  IF i = e THEN S[i].text ELSE S[i].text \o " " \o JoinText(S, i + 1, e)

\* The k-th smallest element of a set of positions.
Nth(P, k) == CHOOSE i \in P : Cardinality({x \in P : x < i}) = k - 1

\* The rule of mergeShortSegments: one output segment per maximal run of
\* consecutive short segments (start of the first, end of the last, texts
\* joined by single spaces), every other segment emitted on its own.
MergeRule ==
  LET S == post.segments
      m == post.minDuration
      out == post.output
      P == EmitAt(S, m) IN
  /\ Len(out) = Cardinality(P)
  /\ \A k \in 1..Len(out) :
        LET i == Nth(P, k) IN
        IF ShortAt(S, i, m)
        THEN /\ out[k].startTime = S[i].startTime
             /\ out[k].endTime = S[RunEnd(S, i, m)].endTime
             /\ out[k].text = JoinText(S, i, RunEnd(S, i, m))
        ELSE out[k] = S[i]

\* The input of the example: {0,1,"a"}, {1,1.5,"b"}, {1.5,2,"c"}.
ExampleD ==
  <<Segment(0, 2, "a", 800, "speech"), Segment(2, 3, "b", 800, "speech"),
    Segment(3, 4, "c", 800, "speech")>>

IsExampleD ==
  /\ post.pc = "returned"
  /\ post.fn = "mergeShortSegments"
  /\ post.segments = ExampleD
  /\ post.minDuration = 1 * Second

Spans(out) ==
  [k \in 1..Len(out) |-> <<out[k].startTime, out[k].endTime, out[k].text>>]

RECURSIVE SumConfidence(_, _, _)
SumConfidence(S, i, e) ==
  IF i > e THEN 0 ELSE S[i].confidence + SumConfidence(S, i + 1, e)

\* C21: the confidence of a segment that mergeShortSegments made from a run
\* of n short segments is the arithmetic mean of the n confidences:
\* n times the confidence is their sum.
C21_MergedConfidenceIsMean ==
  (post.pc = "returned" /\ post.fn = "mergeShortSegments")
  => LET S == post.segments
         m == post.minDuration
         out == post.output
         P == EmitAt(S, m) IN
     \A k \in 1..Len(out) :
        LET i == Nth(P, k) IN
        ShortAt(S, i, m)
        => (RunEnd(S, i, m) - i + 1) * out[k].confidence
             = SumConfidence(S, i, RunEnd(S, i, m))

\* The speech segments of a list, in order.
RECURSIVE SpeechOf(_)
SpeechOf(S) ==
  IF S = <<>> THEN <<>>
  ELSE IF Head(S).type = "paragraph_break" THEN SpeechOf(Tail(S))
  ELSE <<Head(S)>> \o SpeechOf(Tail(S))

\* The output of addParagraphBreaks has a marker exactly after the segments
\* followed by a pause strictly longer than the threshold, each marker
\* spanning its pause, and the input segments unchanged and in order.
BreaksRule(S, threshold, out) ==
  /\ SpeechOf(out) = S
  /\ \A k \in 1..Len(out) :
        out[k].type = "paragraph_break"
        => /\ k > 1 /\ k < Len(out)
           /\ out[k - 1].type # "paragraph_break"
           /\ out[k + 1].type # "paragraph_break"
           /\ out[k].startTime = out[k - 1].endTime
           /\ out[k].endTime = out[k + 1].startTime
           /\ out[k].endTime - out[k].startTime > threshold
  /\ \A k \in 1..(Len(out) - 1) :
        (/\ out[k].type # "paragraph_break"
         /\ out[k + 1].type # "paragraph_break")
        => out[k + 1].startTime - out[k].endTime <= threshold

\* C22: addParagraphBreaks inserts a paragraph_break marker between two
\* adjacent segments exactly when the pause between them is strictly longer
\* than the threshold; the marker spans the pause and carries no text, and
\* the input segments are in the output unchanged and in order.
C22_MarkersAtLongPausesWithoutText ==
  (post.pc = "returned" /\ post.fn = "addParagraphBreaks")
  => /\ BreaksRule(post.segments, post.threshold, post.output)
     /\ \A k \in 1..Len(post.output) :
           post.output[k].type = "paragraph_break" => post.output[k].text = ""

\* C23: postProcessTranscription cleans the text, then merges the short
\* segments, then inserts the paragraph breaks: the list handed to
\* mergeShortSegments holds no paragraph_break marker, and the merge is
\* never applied after addParagraphBreaks.
C23_MergeBeforeBreaks ==
  (post.fn = "postProcessTranscription")
  => /\ \A k \in 1..Len(post.mergeInput) :
           post.mergeInput[k].type # "paragraph_break"
     /\ \A i, j \in 1..Len(post.steps) :
           (post.steps[i] = "addParagraphs"
            /\ post.steps[j] = "mergeShortSegments") => j < i

\* C24: every segment a provider parser returns has a confidence in the
\* closed range 0..100 (thousandths here).
C24_ConfidenceInRange ==
  (post.pc = "returned"
   /\ post.fn \in {"parseFPTResponse", "parseWhisperResponse",
                   "parseGoogleResponse", "parseAWSResponse"})
  => \A k \in 1..Len(post.output) :
        /\ post.output[k].confidence # NaN
        /\ post.output[k].confidence >= 0
        /\ post.output[k].confidence <= 100 * 1000

\* C25: in the FPT, Whisper and Google parsers the confidence of a segment
\* is the confidence the provider reports when it reports one (0
\* included), exp(avg_logprob) for Whisper (avg_logprob = 0 included), and
\* the default 0.8 exactly when the provider reports none.
C25_ReportedOrDefault ==
  (post.pc = "returned")
  => /\ (post.fn = "parseFPTResponse" /\ post.data.shape = "utterances")
        => \A k \in 1..Len(post.output) :
              post.output[k].confidence =
                 IF post.data.utterances[k] = undefined THEN 800
                 ELSE post.data.utterances[k]
     /\ (post.fn = "parseWhisperResponse" /\ post.data.shape = "segments")
        => \A k \in 1..Len(post.output) :
              post.output[k].confidence =
                 IF post.data.segments[k] = undefined THEN 800
                 ELSE exp(post.data.segments[k])
     /\ post.fn = "parseGoogleResponse"
        => \A k \in 1..Len(post.output) :
              post.output[k].confidence =
                 IF post.data.results[k] = undefined THEN 800
                 ELSE post.data.results[k]

\* C26: after updateSpeakerStatistics there is one speaker aggregate for
\* every speaker id of the segments, its totalSpeakingTime is the sum of
\* the durations of that speaker's segments and its segmentCount their
\* number.
C26_OneAggregatePerSpeaker ==
  (post.pc = "returned" /\ post.fn = "updateSpeakerStatistics")
  => \A id \in {post.segments[k].speaker : k \in 1..Len(post.segments)} :
        /\ Cardinality({k \in 1..Len(post.speakers) :
                           post.speakers[k].id = id}) = 1
        /\ \A k \in 1..Len(post.speakers) :
              post.speakers[k].id = id
              => /\ post.speakers[k].totalSpeakingTime * Second
                      = speakerStats(post.segments, id).totalTime
                 /\ post.speakers[k].segmentCount
                      = speakerStats(post.segments, id).segmentCount

\* The stages of processTranscriptionJob before its catch block.
Running == {"setJob", "find", "provider", "save", "meeting", "cache",
            "jobDone", "notify"}

\* C27: at most one transcription job per meeting is active: a
\* startTranscription call starts processTranscriptionJob only when no job
\* of the same meeting is running, and a call that loses the race is
\* answered with the 'already exists or in progress' conflict (409), never
\* with the 500 of a save that the transcript of the winner makes fail.
C27_OneActiveJobPerMeeting ==
  [][\A j \in JobIds :
        jobs[j].pc = "startSave"
        => /\ jobs'[j].pc = "setJob"
              => \A k \in JobIds \ {j} :
                    ~(jobs[k].pc \in Running /\ jobs[k].mid = jobs[j].mid)
           /\ (jobs'[j].pc = "done" /\ jobs'[j].note = "500"
                 /\ faults' = faults)
              => ~(jobs[j].tid = Undef
                   /\ findByMeeting(jobs[j].mid) # Undef)]_vars

\* No handler is at work on transcript t.
Quiet(t) ==
  \A j \in JobIds : jobs[j].pc \in {"idle", "done"} \/ jobs[j].tid # t

\* C28: whenever the handlers that write a transcript (startTranscription,
\* processTranscriptionJob on success and on failure, deleteTranscript)
\* have finished, the entry cached under transcript:<id>, if present, has
\* the status of the stored Transcript record.
C28_CacheHasStoredStatus ==
  \A t \in TIds :
     (Quiet(t) /\ cache[t] # "absent") => cache[t] = transcripts[t].status

\* C29: getTranscription, getTranscriptStats and getJobStatus return the
\* data of a transcript or of its job only to the user who owns it,
\* from the database and from the Redis cache.
C29_AnswersOnlyToOwner ==
  answered # NoAnswer => answered.user = docOwner(answered.tid)

\* The callers that hold the lock: acquired, and the key has their value.
Holders(l) == {c \in LockCallers : l.pc[c] = "acquired" /\ l.key = l.value[c]}

\* C30: release() removes the lock key only if the key still holds the
\* value of the caller that releases, so a caller whose lock expired never
\* deletes the lock another caller acquired since; and acquireLock gives
\* acquired = true only when the key does not exist, so that at most one
\* caller holds the key at a time.
C30_LockReleasedByHolderOnly ==
  [][/\ \A c \in LockCallers :
           /\ (lock.pc[c] = "acquired" /\ lock'.pc[c] = "idle"
               /\ lock'.key # lock.key)
              => lock.key = lock.value[c]
           /\ (lock.pc[c] = "trying" /\ lock'.pc[c] = "acquired")
              => lock.key = 0
           /\ (c \in Holders(lock) /\ lock'.pc[c] = "acquired")
              => lock'.key \in {lock.key, 0}
     /\ Cardinality(Holders(lock')) <= 1]_vars

\* A caller whose lock expired has called release(), which returned 0 and
\* left in the key the value of another caller, who still holds the lock.
C30_Witness ==
  \E c, d \in LockCallers :
     /\ c # d
     /\ lock.pc[c] = "idle" /\ lock.result[c] = 0
     /\ lock.spared[c] = lock.value[d]
     /\ d \in Holders(lock)


====
